---- MODULE Spec2Model ----
(***************************************************************************)
(* A model of banjo, a Dex container parser and Dalvik disassembler.       *)
(*                                                                         *)
(*   SpecCtor     DexFile.__init__: the dependency-ordered walk of the map *)
(*                list, one action per stage of the constructor.           *)
(*   SpecMethods  DexFile._parse_encoded_methods: binding method_ids to    *)
(*                instruction streams.                                     *)
(*   SpecHandles  DexFile.parse_method_handles.                            *)
(*   SpecCode     the pseudo-instruction extractor run over a code stream, *)
(*                followed by linear walks of the control-flow summarizer  *)
(*                (get_instruction_info) and of disassemble.               *)
(*   SpecDis      single calls of disassemble on arbitrary byte strings.   *)
(*                                                                         *)
(* Byte strings are sequences of naturals below 256.  Python exceptions    *)
(* are modelled as a result/state field naming the exception class.        *)
(***************************************************************************)
EXTENDS Integers, Naturals, Sequences, FiniteSets, TLC

VARIABLES
  \* ---- DexFile.__init__ ----
  dex,          \* the input file, abstracted to what the constructor reads
  endianness,   \* self.endianness ("unset" before it is assigned)
  map_list,     \* the local dict map_list: the set of its keys
  attrs,        \* the pool attributes that currently exist on self
  ctor_pc,      \* the stage the constructor is about to run
  log,          \* what has been logged: a set of <<level, message>>
  raised,       \* the exception that ended the constructor, or "none"
  missing,      \* pools that were dereferenced while they did not exist
  \* ---- DexFile._parse_encoded_methods ----
  em_count,     \* number of encoded_method entries read so far
  method_ids,   \* self.method_ids: the _insns_off of every method
  method_idx,   \* the running method index of the current list
  em_first,     \* history: the offset of the first entry naming each method
  em_warned,    \* methods for which the duplicate warning was logged
  em_last,      \* history: the method and code_off of the last entry read
  em_raised,    \* the exception that ended the parse, or "none"
  \* ---- DexFile.parse_method_handles ----
  mh_input,     \* history: the method_handle_items read so far
  method_handles, \* self.method_handles
  mh_raised,    \* the exception that ended parse_method_handles, or "none"
  \* ---- code streams ----
  file,         \* the code stream as it lies in the file (little-endian)
  insns_off,    \* file offset of the stream (code_item_off + 16)
  insns,        \* code_item.insns
  code_offset,  \* the extractor's position in insns
  pseudoinstructions, \* self.pseudoinstructions
  code_pc,      \* "read", "extract", "loaded" or "raised"
  code_raised,  \* the exception that ended the extractor, or "none"
  visited,      \* history: offsets at which the extractor stood
  resumed,      \* history: <<address of a payload, address resumed at>>
  unknown_seen, \* history: <<address, address resumed at, what was logged>>
                \* for every unknown pseudo-instruction the extractor met
  dropped,      \* history: code units cut off the end of the stream
  ii_off,       \* offset of the get_instruction_info walk
  ii_sum,       \* sum of the lengths it returned
  ii_last,      \* its last result
  ii_state,     \* "walking", "done" or "raised"
  dis_off,      \* offset of the disassemble walk
  dis_last,     \* its last result
  dis_state,    \* "walking", "done" or "raised"
  \* ---- single disassemble calls ----
  d_data,       \* the bytes passed to disassemble
  d_df,         \* the container passed to disassemble
  d_res,        \* the result of the call, or the initial "not called"
  \* ---- single calls of the parsing and formatting functions ----
  f_name,       \* the function called, or "none" before the call
  f_arg,        \* the arguments of the call
  f_res,        \* what the call returned or raised
  \* ---- readers of one container ----
  rd_pickle,    \* the file the parser left: the pickled container
  rd_df,        \* the architecture's self.df, or NoDf while it is None
  rd_insns,     \* "insns" in disassemble.__dict__
  rd,           \* every reader's call: its position, arguments and result
  \* ---- the pickle file between the parser and the architecture ----
  tmp_pickle,   \* the file /tmp/out.json.pickle
  parser,       \* DexParser.run: its position and what it raised
  writer,       \* JsonWriter.run: its position
  loader,       \* Smali.load_dex: its position, self.df and what it raised
  loaded        \* history: what pickle.load was given to read

ctorVars == <<dex, endianness, map_list, attrs, ctor_pc, log, raised, missing>>
methVars == <<em_count, method_ids, method_idx, em_first, em_warned, em_last,
             em_raised>>
handleVars == <<mh_input, method_handles, mh_raised>>
codeVars == <<file, insns_off, insns, code_offset, pseudoinstructions, code_pc,
              code_raised, visited, resumed, unknown_seen, dropped, ii_off,
              ii_sum, ii_last, ii_state, dis_off, dis_last, dis_state>>
disVars == <<d_data, d_df, d_res>>
callVars == <<f_name, f_arg, f_res>>
readVars == <<rd_pickle, rd_df, rd_insns, rd>>
pickleVars == <<tmp_pickle, parser, writer, loader, loaded>>
vars == <<ctorVars, methVars, handleVars, codeVars, disVars, callVars,
          readVars, pickleVars>>

(***************************************************************************)
(* MapType                                                                 *)
(***************************************************************************)
TYPE_HEADER_ITEM == 0
TYPE_STRING_ID_ITEM == 1
TYPE_TYPE_ID_ITEM == 2
TYPE_PROTO_ID_ITEM == 3
TYPE_FIELD_ID_ITEM == 4
TYPE_METHOD_ID_ITEM == 5
TYPE_CLASS_DEF_ITEM == 6
TYPE_CALL_SITE_ID_ITEM == 7
TYPE_METHOD_HANDLE_ITEM == 8
TYPE_MAP_LIST == 4096
TYPE_TYPE_LIST == 4097
TYPE_ANNOTATION_SET_REF_LIST == 4098
TYPE_ANNOTATION_SET_ITEM == 4099
TYPE_CLASS_DATA_ITEM == 8192
TYPE_CODE_ITEM == 8193
TYPE_STRING_DATA_ITEM == 8194
TYPE_DEBUG_INFO_ITEM == 8195
TYPE_ANNOTATION_ITEM == 8196
TYPE_ENCODED_ARRAY_ITEM == 8197
TYPE_ANNOTATIONS_DIRECTORY_ITEM == 8198

MapType ==
  { TYPE_HEADER_ITEM, TYPE_STRING_ID_ITEM, TYPE_TYPE_ID_ITEM, TYPE_PROTO_ID_ITEM,
    TYPE_FIELD_ID_ITEM, TYPE_METHOD_ID_ITEM, TYPE_CLASS_DEF_ITEM,
    TYPE_CALL_SITE_ID_ITEM, TYPE_METHOD_HANDLE_ITEM, TYPE_MAP_LIST, TYPE_TYPE_LIST,
    TYPE_ANNOTATION_SET_REF_LIST, TYPE_ANNOTATION_SET_ITEM, TYPE_CLASS_DATA_ITEM,
    TYPE_CODE_ITEM, TYPE_STRING_DATA_ITEM, TYPE_DEBUG_INFO_ITEM,
    TYPE_ANNOTATION_ITEM, TYPE_ENCODED_ARRAY_ITEM, TYPE_ANNOTATIONS_DIRECTORY_ITEM }

(***************************************************************************)
(* ValueType: the encoded_value types that carry a pool reference, and one *)
(* scalar                                                                  *)
(***************************************************************************)
VALUE_INT == 4
VALUE_METHOD_TYPE == 21
VALUE_METHOD_HANDLE == 22
VALUE_STRING == 23
VALUE_TYPE == 24
VALUE_FIELD == 25
VALUE_METHOD == 26
VALUE_ENUM == 27


NoValue == 0

(***************************************************************************)
(* Bounds of the constructor's inputs                                      *)
(***************************************************************************)
MaxAbsent == 2     \* at most this many sections are absent from the map list

RequiredSections ==
  { TYPE_HEADER_ITEM, TYPE_MAP_LIST, TYPE_STRING_ID_ITEM, TYPE_STRING_DATA_ITEM,
    TYPE_TYPE_ID_ITEM, TYPE_PROTO_ID_ITEM, TYPE_METHOD_ID_ITEM, TYPE_CODE_ITEM,
    TYPE_CLASS_DATA_ITEM, TYPE_CLASS_DEF_ITEM }

RECURSIVE AbsentUpTo(_)
AbsentUpTo(k) ==
  IF k = 0 THEN {{}}
  ELSE LET prev == AbsentUpTo(k - 1)
       IN  prev \cup { s \cup {x} : s \in prev, x \in MapType }

LittleEndianTag == <<120, 86, 52, 18>>
BigEndianTag == <<18, 52, 86, 120>>
Tags == { LittleEndianTag, BigEndianTag, <<0, 0, 0, 0>>, <<120, 86>> }

\* The pool a method_handle_item is resolved against: the test is made on
\* the ushort read at bytes 2..4 of the item, which is also the index used.
HandleIndex(item) == item.unused
HandlePoolOf(item) == IF HandleIndex(item) <= 3 THEN "method_ids" ELSE "field_ids"

\* The pools _parse_encoded_value dereferences for a value of type v.
ValuePools(v) ==
  IF v = VALUE_METHOD_TYPE THEN {"proto_ids"}
  ELSE IF v = VALUE_METHOD_HANDLE THEN {"method_handles"}
  ELSE IF v = VALUE_STRING THEN {"strings"}
  ELSE IF v = VALUE_TYPE THEN {"type_ids"}
  ELSE IF v = VALUE_FIELD THEN {"field_ids"}
  ELSE IF v = VALUE_METHOD THEN {"method_ids"}
  ELSE IF v = VALUE_ENUM THEN {"field_ids"}
  ELSE {}

\* The section a pool is decoded from.
SectionOf(pool) ==
  CASE pool = "proto_ids" -> TYPE_PROTO_ID_ITEM
    [] pool = "method_handles" -> TYPE_METHOD_HANDLE_ITEM
    [] pool = "strings" -> TYPE_STRING_ID_ITEM
    [] pool = "type_ids" -> TYPE_TYPE_ID_ITEM
    [] pool = "field_ids" -> TYPE_FIELD_ID_ITEM
    [] pool = "method_ids" -> TYPE_METHOD_ID_ITEM
    [] pool = "type_lists" -> TYPE_TYPE_LIST
    [] pool = "encoded_arrays" -> TYPE_ENCODED_ARRAY_ITEM
    [] pool = "class_data_items" -> TYPE_CLASS_DATA_ITEM
    [] pool = "code_items" -> TYPE_CODE_ITEM

\* What the file's items refer to: the referenced section is in the map list.
WellFormed(d) ==
  /\ (d.proto_params \/ d.interfaces) => TYPE_TYPE_LIST \in d.sections
  /\ d.enc_fields => TYPE_FIELD_ID_ITEM \in d.sections
  /\ d.value # NoValue => TYPE_ENCODED_ARRAY_ITEM \in d.sections
  /\ \A p \in ValuePools(d.value) : SectionOf(p) \in d.sections
  /\ (d.handles # <<>>) <=> (TYPE_METHOD_HANDLE_ITEM \in d.sections)

DexInputs ==
  { d \in [ tag : {LittleEndianTag},
            sections : { MapType \ a : a \in AbsentUpTo(MaxAbsent) },
            proto_params : BOOLEAN,
            interfaces : BOOLEAN,
            enc_fields : BOOLEAN,
            value : { NoValue, VALUE_INT, VALUE_METHOD_TYPE, VALUE_METHOD_HANDLE,
                      VALUE_STRING, VALUE_TYPE, VALUE_FIELD, VALUE_METHOD,
                      VALUE_ENUM },
            handles : { <<>>, <<[type |-> 4, unused |-> 0, id |-> 1]>> } ] :
      WellFormed(d) }
  \cup
  [ tag : Tags \ {LittleEndianTag}, sections : {MapType}, proto_params : {FALSE},
    interfaces : {FALSE}, enc_fields : {FALSE}, value : {NoValue},
    handles : { <<[type |-> 4, unused |-> 0, id |-> 1]>> } ]

otherThanCtor ==
  <<methVars, handleVars, codeVars, disVars, callVars, readVars,
    pickleVars>>

Warn(msg) == [level |-> "warn", msg |-> msg, item |-> 0]
Error(msg, item) == [level |-> "error", msg |-> msg, item |-> item]

\* The constructor raises: kind is the exception class, miss the pools whose
\* absence caused it.
CtorRaise(kind, miss, ml, at, lg) ==
  /\ ctor_pc' = "raised"
  /\ raised' = kind
  /\ missing' = miss
  /\ map_list' = ml
  /\ attrs' = at
  /\ log' = lg
  /\ UNCHANGED <<dex, endianness>>

CtorGo(next, ml, at, lg) ==
  /\ ctor_pc' = next
  /\ map_list' = ml
  /\ attrs' = at
  /\ log' = lg
  /\ UNCHANGED <<dex, endianness, raised, missing>>

\* The endianness chosen from data[40:44], or the exception raised.
EndiannessSwapped(endian_bytes) ==
  IF endian_bytes = BigEndianTag THEN "LittleEndian"
  ELSE IF endian_bytes = LittleEndianTag THEN "BigEndian"
  ELSE "ValueError"
EndiannessOf(endian_bytes) ==
  IF endian_bytes = BigEndianTag THEN "BigEndian"
  ELSE IF endian_bytes = LittleEndianTag THEN "LittleEndian"
  ELSE "ValueError"

\* Endianness check, map list collection, pops of the header and map list.
Ctor_header ==
  /\ ctor_pc = "header"
  /\ IF EndiannessOf(dex.tag) = "ValueError"
       THEN /\ ctor_pc' = "raised"
            /\ raised' = "ValueError"
            /\ UNCHANGED <<dex, endianness, map_list, attrs, log, missing>>
       ELSE /\ endianness' = EndiannessOf(dex.tag)
            /\ LET lg == IF EndiannessOf(dex.tag) = "BigEndian"
                           THEN log \cup {Warn("This is a big-endian file")}
                           ELSE log
                   ml == dex.sections
               IN  IF TYPE_HEADER_ITEM \notin ml \/ TYPE_MAP_LIST \notin ml
                     THEN /\ ctor_pc' = "raised"
                          /\ raised' = "KeyError"
                          /\ map_list' = ml \ {TYPE_HEADER_ITEM}
                          /\ log' = lg
                          /\ UNCHANGED <<dex, attrs, missing>>
                     ELSE /\ ctor_pc' = "strings"
                          /\ map_list' = ml \ {TYPE_HEADER_ITEM, TYPE_MAP_LIST}
                          /\ log' = lg
                          /\ UNCHANGED <<dex, attrs, raised, missing>>
  /\ UNCHANGED otherThanCtor

\* string_ids and strings
Ctor_strings ==
  /\ ctor_pc = "strings"
  /\ IF TYPE_STRING_ID_ITEM \notin map_list
       THEN CtorRaise("KeyError", {}, map_list, attrs, log)
       ELSE LET ml1 == map_list \ {TYPE_STRING_ID_ITEM}
                a1 == attrs \cup {"string_ids"}
                need == {"string_ids"}
                a2 == (a1 \cup {"strings"}) \ {"string_ids"}
            IN  IF ~(need \subseteq a1)
                  THEN CtorRaise("AttributeError", need \ a1, ml1, a1, log)
                ELSE IF TYPE_STRING_DATA_ITEM \notin ml1
                  THEN CtorRaise("KeyError", {}, ml1, a2, log)
                ELSE CtorGo("types", ml1 \ {TYPE_STRING_DATA_ITEM}, a2, log)
  /\ UNCHANGED otherThanCtor

\* type_ids and type_lists
Ctor_types ==
  /\ ctor_pc = "types"
  /\ IF TYPE_TYPE_ID_ITEM \notin map_list
       THEN CtorRaise("KeyError", {}, map_list, attrs, log)
       ELSE LET ml1 == map_list \ {TYPE_TYPE_ID_ITEM}
                need1 == {"strings"}
                a1 == attrs \cup {"type_ids"}
                need2 == {"type_ids"}
            IN  IF ~(need1 \subseteq attrs)
                  THEN CtorRaise("AttributeError", need1 \ attrs, ml1, attrs, log)
                ELSE IF TYPE_TYPE_LIST \notin ml1
                  THEN CtorGo("protos", ml1, a1,
                              log \cup {Warn("No type list section")})
                ELSE IF ~(need2 \subseteq a1)
                  THEN CtorRaise("AttributeError", need2 \ a1,
                                 ml1 \ {TYPE_TYPE_LIST}, a1, log)
                ELSE CtorGo("protos", ml1 \ {TYPE_TYPE_LIST},
                            a1 \cup {"type_lists"}, log)
  /\ UNCHANGED otherThanCtor

\* proto_ids
Ctor_protos ==
  /\ ctor_pc = "protos"
  /\ IF TYPE_PROTO_ID_ITEM \notin map_list
       THEN CtorRaise("KeyError", {}, map_list, attrs, log)
       ELSE LET ml1 == map_list \ {TYPE_PROTO_ID_ITEM}
                need == {"strings", "type_ids"}
                          \cup (IF dex.proto_params THEN {"type_lists"} ELSE {})
            IN  IF ~(need \subseteq attrs)
                  THEN CtorRaise("AttributeError", need \ attrs, ml1, attrs, log)
                  ELSE CtorGo("methods", ml1, attrs \cup {"proto_ids"}, log)
  /\ UNCHANGED otherThanCtor

\* method_ids
Ctor_methods ==
  /\ ctor_pc = "methods"
  /\ IF TYPE_METHOD_ID_ITEM \notin map_list
       THEN CtorRaise("KeyError", {}, map_list, attrs, log)
       ELSE LET ml1 == map_list \ {TYPE_METHOD_ID_ITEM}
                need == {"type_ids", "proto_ids", "strings"}
            IN  IF ~(need \subseteq attrs)
                  THEN CtorRaise("AttributeError", need \ attrs, ml1, attrs, log)
                  ELSE CtorGo("fields", ml1, attrs \cup {"method_ids"}, log)
  /\ UNCHANGED otherThanCtor

\* field_ids
Ctor_fields ==
  /\ ctor_pc = "fields"
  /\ IF TYPE_FIELD_ID_ITEM \notin map_list
       THEN CtorGo("code", map_list, attrs, log \cup {Warn("No field id section.")})
       ELSE LET ml1 == map_list \ {TYPE_FIELD_ID_ITEM}
                need == {"type_ids", "strings"}
            IN  IF ~(need \subseteq attrs)
                  THEN CtorRaise("AttributeError", need \ attrs, ml1, attrs, log)
                  ELSE CtorGo("code", ml1, attrs \cup {"field_ids"}, log)
  /\ UNCHANGED otherThanCtor

\* code_items (every code item of the input has a typed catch handler)
Ctor_code ==
  /\ ctor_pc = "code"
  /\ IF TYPE_CODE_ITEM \notin map_list
       THEN CtorRaise("KeyError", {}, map_list, attrs, log)
       ELSE LET ml1 == map_list \ {TYPE_CODE_ITEM}
                a1 == attrs \cup {"code_items", "pseudoinstructions"}
                need == {"type_ids"}
            IN  IF ~(need \subseteq a1)
                  THEN CtorRaise("AttributeError", need \ a1, ml1, a1, log)
                  ELSE CtorGo("class_data", ml1, a1, log)
  /\ UNCHANGED otherThanCtor

\* class_data_items (every class has an encoded_method with code), then
\* code_items is dropped
Ctor_class_data ==
  /\ ctor_pc = "class_data"
  /\ IF TYPE_CLASS_DATA_ITEM \notin map_list
       THEN CtorRaise("KeyError", {}, map_list, attrs, log)
       ELSE LET ml1 == map_list \ {TYPE_CLASS_DATA_ITEM}
                a1 == attrs \cup {"class_data_items"}
                need == {"method_ids", "code_items"}
                          \cup (IF dex.enc_fields THEN {"field_ids"} ELSE {})
            IN  IF ~(need \subseteq a1)
                  THEN CtorRaise("AttributeError", need \ a1, ml1, a1, log)
                  ELSE CtorGo("encoded_array", ml1, a1 \ {"code_items"}, log)
  /\ UNCHANGED otherThanCtor

\* encoded_array_items, then proto_ids is dropped
Ctor_encoded_array ==
  /\ ctor_pc = "encoded_array"
  /\ IF TYPE_ENCODED_ARRAY_ITEM \notin map_list
       THEN CtorGo("class_defs", map_list, attrs \ {"proto_ids"},
                   log \cup {Warn("No encoded array section.")})
       ELSE LET ml1 == map_list \ {TYPE_ENCODED_ARRAY_ITEM}
                a1 == attrs \cup {"encoded_arrays"}
                need == ValuePools(dex.value)
            IN  IF ~(need \subseteq a1)
                  THEN CtorRaise("AttributeError", need \ a1, ml1, a1, log)
                  ELSE CtorGo("class_defs", ml1, a1 \ {"proto_ids"}, log)
  /\ UNCHANGED otherThanCtor

\* class_defs (every class has class_data), then type_lists and
\* class_data_items are dropped
Ctor_class_defs ==
  /\ ctor_pc = "class_defs"
  /\ IF TYPE_CLASS_DEF_ITEM \notin map_list
       THEN CtorRaise("KeyError", {}, map_list, attrs, log)
       ELSE LET ml1 == map_list \ {TYPE_CLASS_DEF_ITEM}
                need == {"type_ids", "strings", "class_data_items"}
                          \cup (IF dex.interfaces THEN {"type_lists"} ELSE {})
                          \cup (IF dex.value # NoValue THEN {"encoded_arrays"}
                                                       ELSE {})
                a1 == attrs \cup {"class_defs"}
                a2 == IF "type_lists" \in a1
                        THEN a1 \ {"type_lists", "class_data_items"}
                        ELSE a1
            IN  IF ~(need \subseteq attrs)
                  THEN CtorRaise("AttributeError", need \ attrs, ml1, attrs, log)
                  ELSE CtorGo("call_sites", ml1, a2, log)
  /\ UNCHANGED otherThanCtor

\* call_site_ids
Ctor_call_sites ==
  /\ ctor_pc = "call_sites"
  /\ IF TYPE_CALL_SITE_ID_ITEM \notin map_list
       THEN CtorGo("method_handles", map_list, attrs, log \cup {Warn("No calls")})
       ELSE CtorGo("method_handles", map_list \ {TYPE_CALL_SITE_ID_ITEM},
                   attrs \cup {"call_site_ids"}, log)
  /\ UNCHANGED otherThanCtor

\* method_handles
Ctor_method_handles ==
  /\ ctor_pc = "method_handles"
  /\ IF TYPE_METHOD_HANDLE_ITEM \notin map_list
       THEN CtorGo("annotations", map_list, attrs, log \cup {Warn("No methods")})
       ELSE LET ml1 == map_list \ {TYPE_METHOD_HANDLE_ITEM}
                a1 == attrs \cup {"method_handles"}
                need == { HandlePoolOf(dex.handles[i]) : i \in DOMAIN dex.handles }
            IN  IF ~(need \subseteq a1)
                  THEN CtorRaise("AttributeError", need \ a1, ml1, a1, log)
                  ELSE CtorGo("annotations", ml1, a1, log)
  /\ UNCHANGED otherThanCtor

\* annotation_item, annotations_directory_item and annotation_set_item are
\* popped inside one try block
Ctor_annotations ==
  /\ ctor_pc = "annotations"
  /\ IF TYPE_ANNOTATION_ITEM \notin map_list
       THEN CtorGo("annotation_set_refs", map_list, attrs,
                   log \cup {Warn("No annotations")})
     ELSE IF TYPE_ANNOTATIONS_DIRECTORY_ITEM \notin map_list
       THEN CtorGo("annotation_set_refs", map_list \ {TYPE_ANNOTATION_ITEM},
                   attrs, log \cup {Warn("No annotations")})
     ELSE IF TYPE_ANNOTATION_SET_ITEM \notin map_list
       THEN CtorGo("annotation_set_refs",
                   map_list \ {TYPE_ANNOTATION_ITEM, TYPE_ANNOTATIONS_DIRECTORY_ITEM},
                   attrs, log \cup {Warn("No annotations")})
     ELSE CtorGo("annotation_set_refs",
                 map_list \ {TYPE_ANNOTATION_ITEM, TYPE_ANNOTATIONS_DIRECTORY_ITEM,
                             TYPE_ANNOTATION_SET_ITEM},
                 attrs, log)
  /\ UNCHANGED otherThanCtor

Ctor_annotation_set_refs ==
  /\ ctor_pc = "annotation_set_refs"
  /\ IF TYPE_ANNOTATION_SET_REF_LIST \notin map_list
       THEN CtorGo("debug_info", map_list, attrs,
                   log \cup {Warn("No annotations set refs")})
       ELSE CtorGo("debug_info", map_list \ {TYPE_ANNOTATION_SET_REF_LIST},
                   attrs, log)
  /\ UNCHANGED otherThanCtor

Ctor_debug_info ==
  /\ ctor_pc = "debug_info"
  /\ IF TYPE_DEBUG_INFO_ITEM \notin map_list
       THEN CtorGo("unknown", map_list, attrs,
                   log \cup {Warn("No debug info items")})
       ELSE CtorGo("unknown", map_list \ {TYPE_DEBUG_INFO_ITEM}, attrs, log)
  /\ UNCHANGED otherThanCtor

\* whatever is left in map_list is reported as an unknown section type
Ctor_unknown ==
  /\ ctor_pc = "unknown"
  /\ CtorGo("done", map_list, attrs,
            log \cup { Error("unknown type", t) : t \in map_list })
  /\ UNCHANGED otherThanCtor

CtorNext ==
  \/ Ctor_header
  \/ Ctor_strings
  \/ Ctor_types
  \/ Ctor_protos
  \/ Ctor_methods
  \/ Ctor_fields
  \/ Ctor_code
  \/ Ctor_class_data
  \/ Ctor_encoded_array
  \/ Ctor_class_defs
  \/ Ctor_call_sites
  \/ Ctor_method_handles
  \/ Ctor_annotations
  \/ Ctor_annotation_set_refs
  \/ Ctor_debug_info
  \/ Ctor_unknown

CtorIdle ==
  /\ dex = [tag |-> LittleEndianTag, sections |-> MapType, proto_params |-> FALSE,
            interfaces |-> FALSE, enc_fields |-> FALSE, value |-> NoValue,
            handles |-> <<>>]
  /\ endianness = "unset"
  /\ map_list = {}
  /\ attrs = {}
  /\ ctor_pc = "idle"
  /\ log = {}
  /\ raised = "none"
  /\ missing = {}

CtorInit ==
  /\ dex \in DexInputs
  /\ endianness = "unset"
  /\ map_list = {}
  /\ attrs = {}
  /\ ctor_pc = "header"
  /\ log = {}
  /\ raised = "none"
  /\ missing = {}


(***************************************************************************)
(* DexFile._parse_encoded_methods                                          *)
(***************************************************************************)
None == -1          \* Python's None, for an Optional[int]

NumMethods == 2     \* size of the method_ids pool
MaxEntries == 3     \* encoded_method entries read in one behaviour
CodeItemOffs == {32, 64}   \* the keys of self.code_items

otherThanMeth ==
  <<ctorVars, handleVars, codeVars, disVars, callVars, readVars,
    pickleVars>>

\* method._insns_off after an encoded_method with code_off names the method
BindLast(old, code_off) == code_off + 16
BindInsnsOff(old, code_off) ==
  IF old # None /\ old # code_off + 16 THEN old ELSE code_off + 16

\* the duplicate-binding warning
WarnsDuplicate(old, code_off) == old # None /\ old # code_off + 16

\* _parse_encoded_methods is entered for a list of encoded_methods:
\* method_idx starts from 0
BeginEncodedMethods ==
  /\ em_raised = "none"
  /\ em_count < MaxEntries
  /\ method_idx # 0
  /\ method_idx' = 0
  /\ UNCHANGED <<em_count, method_ids, em_first, em_warned, em_last, em_raised>>
  /\ UNCHANGED otherThanMeth

\* one iteration of the loop over the encoded_methods of the list
ParseEncodedMethod(method_idx_diff, code_off) ==
  /\ em_raised = "none"
  /\ em_count < MaxEntries
  /\ em_count' = em_count + 1
  /\ method_idx' = method_idx + method_idx_diff
  /\ IF method_idx' >= Len(method_ids)
       THEN /\ em_raised' = "IndexError"
            /\ UNCHANGED <<method_ids, em_first, em_warned, em_last>>
       ELSE LET m == method_idx' + 1     \* sequences are indexed from 1
                old == method_ids[m]
            IN  /\ method_ids' = [method_ids EXCEPT ![m] = BindInsnsOff(old, code_off)]
                /\ em_warned' = IF WarnsDuplicate(old, code_off)
                                  THEN em_warned \cup {m} ELSE em_warned
                /\ em_first' = IF em_first[m] = None
                                 THEN [em_first EXCEPT ![m] = code_off + 16]
                                 ELSE em_first
                /\ em_last' = [m |-> m, code_off |-> code_off]
                /\ em_raised' = IF code_off # 0 /\ code_off \notin CodeItemOffs
                                  THEN "KeyError" ELSE "none"
  /\ UNCHANGED otherThanMeth

MethNext ==
  \/ BeginEncodedMethods
  \/ \E d \in 0 .. NumMethods, c \in {0, 48} \cup CodeItemOffs :
       ParseEncodedMethod(d, c)

MethInit ==
  /\ em_count = 0
  /\ method_ids = [m \in 1 .. NumMethods |-> None]
  /\ method_idx = 0
  /\ em_first = [m \in 1 .. NumMethods |-> None]
  /\ em_warned = {}
  /\ em_last = [m |-> 0, code_off |-> 0]
  /\ em_raised = "none"

(***************************************************************************)
(* DexFile.parse_method_handles                                            *)
(***************************************************************************)
PoolSize == 5       \* size of the field_ids and of the method_ids pool
MaxHandles == 2     \* method_handle_items read in one behaviour

METHOD_HANDLE_TYPE_INSTANCE_GET == 3     \* the last field-accessor kind
METHOD_HANDLE_TYPE_INVOKE_INTERFACE == 8 \* the last MethodHandleType

\* The pools: entry i of a pool is a DexFieldId / DexMethodId
FieldIds == [i \in 1 .. PoolSize |-> [pool |-> "field_ids", index |-> i - 1]]
MethodIds == [i \in 1 .. PoolSize |-> [pool |-> "method_ids", index |-> i - 1]]

\* A method_handle_item as laid out in the file: four ushorts
HandleItems ==
  [ type : 0 .. METHOD_HANDLE_TYPE_INVOKE_INTERFACE + 1,
    unused : {0, 1, 4, PoolSize},
    id : {0, 1, 4, PoolSize} ]

otherThanHandles ==
  <<ctorVars, methVars, codeVars, disVars, callVars, readVars,
    pickleVars>>

\* one iteration of the loop over the items of the section
ParseMethodHandle(item) ==
  /\ mh_raised = "none"
  /\ Len(mh_input) < MaxHandles
  /\ mh_input' = Append(mh_input, item)
  /\ IF item.type > METHOD_HANDLE_TYPE_INVOKE_INTERFACE
       THEN /\ mh_raised' = "ValueError"      \* MethodHandleType(...)
            /\ UNCHANGED method_handles
       ELSE LET id_ == HandleIndex(item)
                pool == IF HandlePoolOf(item) = "method_ids" THEN MethodIds
                                                             ELSE FieldIds
            IN  IF id_ >= Len(pool)
                  THEN /\ mh_raised' = "IndexError"
                       /\ UNCHANGED method_handles
                  ELSE /\ method_handles' =
                            Append(method_handles,
                                   [type_ |-> item.type,
                                    field_or_method_id |-> pool[id_ + 1]])
                       /\ UNCHANGED mh_raised
  /\ UNCHANGED otherThanHandles

HandlesNext == \E item \in HandleItems : ParseMethodHandle(item)

HandlesInit ==
  /\ mh_input = <<>>
  /\ method_handles = <<>>
  /\ mh_raised = "none"

(***************************************************************************)
(* Byte strings                                                            *)
(***************************************************************************)
Min(a, b) == IF a <= b THEN a ELSE b

\* Python's data[a:b] for 0 <= a, 0 <= b
Slice(data, a, b) == SubSeq(data, a + 1, Min(b, Len(data)))
\* Python's data[a:]
SliceFrom(data, a) == SubSeq(data, a + 1, Len(data))

RECURSIVE Pow2(_)
Pow2(n) == IF n = 0 THEN 1 ELSE 2 * Pow2(n - 1)

\* struct.unpack of little-endian integers; the caller checks the length
\* (struct.error otherwise)
RECURSIVE UnpackLE(_)
UnpackLE(b) == IF b = <<>> THEN 0 ELSE b[1] + 256 * UnpackLE(Tail(b))
UnpackSignedLE(b) ==
  LET last == b[Len(b)]
  IN  UnpackLE(SubSeq(b, 1, Len(b) - 1))
      + Pow2(8 * (Len(b) - 1)) * (IF last >= 128 THEN last - 256 ELSE last)

\* endian_swap_shorts for data of even length (the assertion is checked by
\* the caller): byte i is taken from i + 1 when i is even, from i - 1 when
\* i is odd.  Sequences are indexed from 1, hence the parity flips.
endian_swap_shorts(data) ==
  [k \in 1 .. Len(data) |-> IF k % 2 = 1 THEN data[k + 1] ELSE data[k - 1]]

\* pack(">H", _parse_ushort(two bytes)) for every code unit of a
\* little-endian file
PackInsns(bytes) ==
  [k \in 1 .. Len(bytes) |->
     LET first == IF k % 2 = 1 THEN k ELSE k - 1
         u == bytes[first] + 256 * bytes[first + 1]
     IN  IF k % 2 = 1 THEN u \div 256 ELSE u % 256]

(***************************************************************************)
(* The instruction table (instruction_data.pickle): the format id of every *)
(* opcode, as published in the Dalvik bytecode reference                   *)
(***************************************************************************)
FormatId(op) ==
  CASE op = 0 -> "10x"
    [] op \in {1, 4, 7} -> "12x"
    [] op \in {2, 5, 8} -> "22x"
    [] op \in {3, 6, 9} -> "32x"
    [] op \in 10 .. 13 -> "11x"
    [] op = 14 -> "10x"
    [] op \in 15 .. 17 -> "11x"
    [] op = 18 -> "11n"
    [] op = 19 -> "21s"
    [] op = 20 -> "31i"
    [] op = 21 -> "21h"
    [] op = 22 -> "21s"
    [] op = 23 -> "31i"
    [] op = 24 -> "51l"
    [] op = 25 -> "21h"
    [] op = 26 -> "21c"
    [] op = 27 -> "31c"
    [] op = 28 -> "21c"
    [] op \in 29 .. 30 -> "11x"
    [] op = 31 -> "21c"
    [] op = 32 -> "22c"
    [] op = 33 -> "12x"
    [] op = 34 -> "21c"
    [] op = 35 -> "22c"
    [] op = 36 -> "35c"
    [] op = 37 -> "3rc"
    [] op = 38 -> "31t"
    [] op = 39 -> "11x"
    [] op = 40 -> "10t"
    [] op = 41 -> "20t"
    [] op = 42 -> "30t"
    [] op \in 43 .. 44 -> "31t"
    [] op \in 45 .. 49 -> "23x"
    [] op \in 50 .. 55 -> "22t"
    [] op \in 56 .. 61 -> "21t"
    [] op \in 62 .. 67 -> "10x"
    [] op \in 68 .. 81 -> "23x"
    [] op \in 82 .. 95 -> "22c"
    [] op \in 96 .. 109 -> "21c"
    [] op \in 110 .. 114 -> "35c"
    [] op = 115 -> "10x"
    [] op \in 116 .. 120 -> "3rc"
    [] op \in 121 .. 122 -> "10x"
    [] op \in 123 .. 143 -> "12x"
    [] op \in 144 .. 175 -> "23x"
    [] op \in 176 .. 207 -> "12x"
    [] op \in 208 .. 215 -> "22s"
    [] op \in 216 .. 226 -> "22b"
    [] op \in 227 .. 249 -> "10x"
    [] op = 250 -> "45cc"
    [] op = 251 -> "4rcc"
    [] op = 252 -> "35c"
    [] op = 253 -> "3rc"
    [] op \in 254 .. 255 -> "21c"

\* SmaliInstructionFormat.insn_len = int(formatid[0])
FormatLen(formatid) ==
  CASE formatid \in {"10x", "12x", "11n", "11x", "10t"} -> 1
    [] formatid \in {"20t", "22x", "21t", "21s", "21h", "21c", "23x", "22b",
                     "22t", "22s", "22c"} -> 2
    [] formatid \in {"30t", "32x", "31i", "31t", "31c", "35c", "3rc"} -> 3
    [] formatid \in {"45cc", "4rcc"} -> 4
    [] formatid = "51l" -> 5

InsnLenZero(op) == 0
InsnLen(op) == FormatLen(FormatId(op))

\* Smali.max_instr_length
max_instr_length == 200

(***************************************************************************)
(* Payload records of the pseudo-instruction map.  One record shape holds  *)
(* the three payload classes; the fields a class does not have are empty.  *)
(***************************************************************************)
SmaliPackedSwitchPayload(total, size, first_key, targets) ==
  [kind |-> "packed-switch", _total_size |-> total, size |-> size,
   first_key |-> first_key, keys |-> <<>>, targets |-> targets,
   element_width |-> 0, data |-> <<>>]
SmaliSparseSwitchPayload(total, size, keys, targets) ==
  [kind |-> "sparse-switch", _total_size |-> total, size |-> size,
   first_key |-> 0, keys |-> keys, targets |-> targets,
   element_width |-> 0, data |-> <<>>]
SmaliFillArrayDataPayload(total, element_width, size, data) ==
  [kind |-> "fill-array-data", _total_size |-> total, size |-> size,
   first_key |-> 0, keys |-> <<>>, targets |-> <<>>,
   element_width |-> element_width, data |-> data]

(***************************************************************************)
(* disassemble_pseudoinstructions: one iteration of its loop               *)
(***************************************************************************)
\* the 4-byte little-endian integers unpacked from d[i : i + 4] for
\* i in range(from, to, 4); struct.error when a slice is short
IntsRaise(d, from, to) == to > from /\ Len(d) < to
Ints(d, from, to) ==
  [j \in 1 .. ((to - from) \div 4) |->
     UnpackSignedLE(Slice(d, from + 4 * (j - 1), from + 4 * j))]

\* the length of the data blob of a fill-array-data payload
FillDataLen(element_width, size) == ((element_width * size + 1) \div 2) * 2

\* the slice of data_swapped stored as the blob
FillData(d, element_width, size) ==
  Slice(d, 6, 8 + FillDataLen(element_width, size))

PackedTotalWrong(size) == size * 4 + 6
PackedTotal(size) == size * 4 + 8
SparseTotal(size) == size * 8 + 4
FillTotal(element_width, size) == FillDataLen(element_width, size) + 8

\* The result of one iteration at code_offset off of data: the exception
\* raised (or "none"), the payload recorded (or none) and the next offset.
ExtractFrom(data, off, d) ==
  LET type == data[off + 1]          \* data[code_offset]
      opcode == data[off + 2]        \* data[code_offset + 1]
      nothing == [raised |-> "none", found |-> FALSE, payload |-> <<>>,
                  next |-> off, unknown |-> FALSE]
  IN  IF opcode = 0 /\ type # 0
        THEN IF type = 1
               THEN IF Len(d) < 2 \/ Len(d) < 6
                         \/ IntsRaise(d, 6, 6 + UnpackLE(Slice(d, 0, 2)) * 4)
                      THEN [nothing EXCEPT !.raised = "struct.error"]
                      ELSE LET size == UnpackLE(Slice(d, 0, 2))
                           IN  [nothing EXCEPT
                                  !.found = TRUE,
                                  !.payload = SmaliPackedSwitchPayload(
                                     PackedTotal(size), size,
                                     UnpackSignedLE(Slice(d, 2, 6)),
                                     Ints(d, 6, 6 + size * 4)),
                                  !.next = off + PackedTotal(size)]
             ELSE IF type = 2
               THEN IF Len(d) < 2
                         \/ IntsRaise(d, 2, 2 + UnpackLE(Slice(d, 0, 2)) * 8)
                      THEN [nothing EXCEPT !.raised = "struct.error"]
                      ELSE LET size == UnpackLE(Slice(d, 0, 2))
                           IN  [nothing EXCEPT
                                  !.found = TRUE,
                                  !.payload = SmaliSparseSwitchPayload(
                                     SparseTotal(size), size,
                                     Ints(d, 2, 2 + size * 4),
                                     Ints(d, 2 + size * 4, 2 + size * 8)),
                                  !.next = off + SparseTotal(size)]
             ELSE IF type = 3
               THEN IF Len(d) < 2 \/ Len(d) < 6
                      THEN [nothing EXCEPT !.raised = "struct.error"]
                      ELSE LET element_width == UnpackLE(Slice(d, 0, 2))
                               size == UnpackLE(Slice(d, 2, 6))
                           IN  [nothing EXCEPT
                                  !.found = TRUE,
                                  !.payload = SmaliFillArrayDataPayload(
                                     FillTotal(element_width, size),
                                     element_width, size,
                                     FillData(d, element_width, size)),
                                  !.next = off + FillTotal(element_width, size)]
             ELSE [nothing EXCEPT !.next = off + 2, !.unknown = TRUE]
        ELSE [nothing EXCEPT !.next = off + InsnLen(opcode) * 2]
\* d is data_swapped, the rest of the stream after the code unit at off
ExtractAt(data, off) ==
  CHOOSE r \in {ExtractFrom(data, off, d) :
                  d \in {endian_swap_shorts(SliceFrom(data, off + 2))}} : TRUE

(***************************************************************************)
(* The instruction table, continued: mnemonics and format strings          *)
(***************************************************************************)
Mnemonics ==
  <<
    "nop", "move", "move/from16", "move/16", "move-wide", "move-wide/from16",
    "move-wide/16", "move-object", "move-object/from16", "move-object/16", "move-result", "move-result-wide",
    "move-result-object", "move-exception", "return-void", "return", "return-wide", "return-object",
    "const/4", "const/16", "const", "const/high16", "const-wide/16", "const-wide/32",
    "const-wide", "const-wide/high16", "const-string", "const-string/jumbo", "const-class", "monitor-enter",
    "monitor-exit", "check-cast", "instance-of", "array-length", "new-instance", "new-array",
    "filled-new-array", "filled-new-array/range", "fill-array-data", "throw", "goto", "goto/16",
    "goto/32", "packed-switch", "sparse-switch", "cmpl-float", "cmpg-float", "cmpl-double",
    "cmpg-double", "cmp-long", "if-eq", "if-ne", "if-lt", "if-ge",
    "if-gt", "if-le", "if-eqz", "if-nez", "if-ltz", "if-gez",
    "if-gtz", "if-lez", "", "", "", "",
    "", "", "aget", "aget-wide", "aget-object", "aget-boolean",
    "aget-byte", "aget-char", "aget-short", "aput", "aput-wide", "aput-object",
    "aput-boolean", "aput-byte", "aput-char", "aput-short", "iget", "iget-wide",
    "iget-object", "iget-boolean", "iget-byte", "iget-char", "iget-short", "iput",
    "iput-wide", "iput-object", "iput-boolean", "iput-byte", "iput-char", "iput-short",
    "sget", "sget-wide", "sget-object", "sget-boolean", "sget-byte", "sget-char",
    "sget-short", "sput", "sput-wide", "sput-object", "sput-boolean", "sput-byte",
    "sput-char", "sput-short", "invoke-virtual", "invoke-super", "invoke-direct", "invoke-static",
    "invoke-interface", "", "invoke-virtual/range", "invoke-super/range", "invoke-direct/range", "invoke-static/range",
    "invoke-interface/range", "", "", "neg-int", "not-int", "neg-long",
    "not-long", "neg-float", "neg-double", "int-to-long", "int-to-float", "int-to-double",
    "long-to-int", "long-to-float", "long-to-double", "float-to-int", "float-to-long", "float-to-double",
    "double-to-int", "double-to-long", "double-to-float", "int-to-byte", "int-to-char", "int-to-short",
    "add-int", "sub-int", "mul-int", "div-int", "rem-int", "and-int",
    "or-int", "xor-int", "shl-int", "shr-int", "ushr-int", "add-long",
    "sub-long", "mul-long", "div-long", "rem-long", "and-long", "or-long",
    "xor-long", "shl-long", "shr-long", "ushr-long", "add-float", "sub-float",
    "mul-float", "div-float", "rem-float", "add-double", "sub-double", "mul-double",
    "div-double", "rem-double", "add-int/2addr", "sub-int/2addr", "mul-int/2addr", "div-int/2addr",
    "rem-int/2addr", "and-int/2addr", "or-int/2addr", "xor-int/2addr", "shl-int/2addr", "shr-int/2addr",
    "ushr-int/2addr", "add-long/2addr", "sub-long/2addr", "mul-long/2addr", "div-long/2addr", "rem-long/2addr",
    "and-long/2addr", "or-long/2addr", "xor-long/2addr", "shl-long/2addr", "shr-long/2addr", "ushr-long/2addr",
    "add-float/2addr", "sub-float/2addr", "mul-float/2addr", "div-float/2addr", "rem-float/2addr", "add-double/2addr",
    "sub-double/2addr", "mul-double/2addr", "div-double/2addr", "rem-double/2addr", "add-int/lit16", "rsub-int",
    "mul-int/lit16", "div-int/lit16", "rem-int/lit16", "and-int/lit16", "or-int/lit16", "xor-int/lit16",
    "add-int/lit8", "rsub-int/lit8", "mul-int/lit8", "div-int/lit8", "rem-int/lit8", "and-int/lit8",
    "or-int/lit8", "xor-int/lit8", "shl-int/lit8", "shr-int/lit8", "ushr-int/lit8", "",
    "", "", "", "", "", "",
    "", "", "", "", "", "",
    "", "", "", "", "", "",
    "", "", "", "", "invoke-polymorphic", "invoke-polymorphic/range",
    "invoke-custom", "invoke-custom/range", "const-method-handle", "const-method-type"
  >>
Mnemonic(op) == Mnemonics[op + 1]

\* the opcodes whose mnemonic passes each test of get_instruction_info
StartsWithReturn == (14 .. 17)
IsThrow == {39}
StartsWithGoto == (40 .. 42)
IsSwitch == (43 .. 44)
IsFillArrayData == {38}
StartsWithIf == (50 .. 61)
StartsWithInvoke == (110 .. 114) \cup (116 .. 120) \cup (250 .. 253)
StartsWithInvokeCustom == (252 .. 253)

\* SmaliInstructionFormat.format_, a string, as its characters
Format(formatid) ==
  CASE formatid \in {"10x"} ->
         <<"Ø", "Ø", "|", "o", "p">>
    [] formatid \in {"12x", "11n"} ->
         <<"B", "|", "A", "|", "o", "p">>
    [] formatid \in {"11x", "10t"} ->
         <<"A", "A", "|", "o", "p">>
    [] formatid \in {"20t"} ->
         <<"Ø", "Ø", "|", "o", "p", " ", "A", "A", "A", "A">>
    [] formatid \in {"22x", "21t", "21s", "21h", "21c"} ->
         <<"A", "A", "|", "o", "p", " ", "B", "B", "B", "B">>
    [] formatid \in {"23x", "22b"} ->
         <<"A", "A", "|", "o", "p", " ", "C", "C", "|", "B", "B">>
    [] formatid \in {"22t", "22s", "22c"} ->
         <<"B", "|", "A", "|", "o", "p", " ", "C", "C", "C", "C">>
    [] formatid \in {"30t"} ->
         <<"Ø", "Ø", "|", "o", "p", " ", "A", "A", "A", "A", "l", "o", " ", "A", "A", "A", "A", "h", "i">>
    [] formatid \in {"32x"} ->
         <<"Ø", "Ø", "|", "o", "p", " ", "A", "A", "A", "A", " ", "B", "B", "B", "B">>
    [] formatid \in {"31i", "31t", "31c"} ->
         <<"A", "A", "|", "o", "p", " ", "B", "B", "B", "B", "l", "o", " ", "B", "B", "B", "B", "h", "i">>
    [] formatid \in {"35c"} ->
         <<"A", "|", "G", "|", "o", "p", " ", "B", "B", "B", "B", " ", "F", "|", "E", "|", "D", "|", "C">>
    [] formatid \in {"3rc"} ->
         <<"A", "A", "|", "o", "p", " ", "B", "B", "B", "B", " ", "C", "C", "C", "C">>
    [] formatid \in {"45cc"} ->
         <<"A", "|", "G", "|", "o", "p", " ", "B", "B", "B", "B", " ", "F", "|", "E", "|", "D", "|", "C", " ", "H", "H", "H", "H">>
    [] formatid \in {"4rcc"} ->
         <<"A", "A", "|", "o", "p", " ", "B", "B", "B", "B", " ", "C", "C", "C", "C", " ", "H", "H", "H", "H">>
    [] formatid \in {"51l"} ->
         <<"A", "A", "|", "o", "p", " ", "B", "B", "B", "B", "l", "o", " ", "B", "B", "B", "B", " ", "B", "B", "B", "B", " ", "B", "B", "B", "B", "h", "i">>

(***************************************************************************)
(* Strings are sequences of one-character strings                          *)
(***************************************************************************)
UpperAZ == {"A", "B", "C", "D", "E", "F", "G", "H", "I", "J", "K", "L", "M",
            "N", "O", "P", "Q", "R", "S", "T", "U", "V", "W", "X", "Y", "Z"}
LowerAZ == {"a", "b", "c", "d", "e", "f", "g", "h", "i", "j", "k", "l", "m",
            "n", "o", "p", "q", "r", "s", "t", "u", "v", "w", "x", "y", "z"}

\* str.split(sep) for a one-character separator
RECURSIVE SplitAcc(_, _, _)
SplitAcc(s, sep, cur) ==
  IF s = <<>> THEN <<cur>>
  ELSE IF Head(s) = sep THEN <<cur>> \o SplitAcc(Tail(s), sep, <<>>)
  ELSE SplitAcc(Tail(s), sep, Append(cur, Head(s)))
Split(s, sep) == SplitAcc(s, sep, <<>>)

\* sub in s
Contains(s, sub) ==
  \E i \in 1 .. (Len(s) - Len(sub) + 1) : SubSeq(s, i, i + Len(sub) - 1) = sub

\* s.replace(sub, "")
RECURSIVE Remove(_, _)
Remove(s, sub) ==
  IF Len(s) < Len(sub) THEN s
  ELSE IF SubSeq(s, 1, Len(sub)) = sub
         THEN Remove(SubSeq(s, Len(sub) + 1, Len(s)), sub)
         ELSE <<Head(s)>> \o Remove(Tail(s), sub)

\* s.count(c) for a character c
Count(s, c) == Cardinality({i \in 1 .. Len(s) : s[i] = c})

\* str.isupper(): a cased character exists and none is lower case
IsUpper(s) ==
  /\ \E i \in 1 .. Len(s) : s[i] \in UpperAZ \cup {"Ø"}
  /\ \A i \in 1 .. Len(s) : s[i] \notin LowerAZ \cup {"ø"}

\* "".join(ss), halving the list so that long lists nest shallowly
RECURSIVE Concat(_)
Concat(ss) ==
  IF ss = <<>> THEN <<>>
  ELSE IF Len(ss) = 1 THEN ss[1]
  ELSE Concat(SubSeq(ss, 1, Len(ss) \div 2))
       \o Concat(SubSeq(ss, Len(ss) \div 2 + 1, Len(ss)))

(***************************************************************************)
(* slice_nibbles, sign, parse_with_format                                  *)
(***************************************************************************)
\* data[i] of a bytes object, for an index the caller knows is in range
At(data, i) == data[i + 1]

\* the byte indexes slice_nibbles reads
NibbleReads(start_nibble, size) ==
  IF size \in {1, 2} THEN {start_nibble \div 2}
  ELSE IF size = 4 THEN {start_nibble \div 2, start_nibble \div 2 + 1}
  ELSE IF size \in {8, 16}
    THEN UNION {{(start_nibble + 4 * i) \div 2, (start_nibble + 4 * i) \div 2 + 1} :
                  i \in 0 .. (size \div 4 - 1)}
  ELSE {}

\* slice_nibbles raises IndexError
SliceNibblesRaises(data, start_nibble, size) ==
  \E i \in NibbleReads(start_nibble, size) : i >= Len(data)

\* the 2-byte values from start_nibble on, ordered from low to high
RECURSIVE SumShorts(_, _, _)
SumShorts(data, start_nibble, n) ==
  IF n = 0 THEN 0
  ELSE At(data, start_nibble \div 2) * 256 + At(data, start_nibble \div 2 + 1)
       + 65536 * SumShorts(data, start_nibble + 4, n - 1)

\* A sum of 2-byte values that does not fit the integers of the model checker
\* (2^31 and more) is the set of the positions of its 1 bits: the value
\* shifted by i * 16 occupies the bits 16 * i .. 16 * i + 15, so the sum is
\* the union.
RECURSIVE SumShortsWide(_, _, _, _)
SumShortsWide(data, start_nibble, n, i) ==
  IF n = 0 THEN {}
  ELSE {b + i * 16 : b \in {c \in 0 .. 15 :
          ((At(data, start_nibble \div 2) * 256 + At(data, start_nibble \div 2 + 1))
             \div Pow2(c)) % 2 = 1}}
       \cup SumShortsWide(data, start_nibble + 4, n - 1, i + 1)
FitsInt(data, start_nibble, n) ==
  /\ n > 1 => At(data, start_nibble \div 2 + 2) < 128
  /\ \A k \in (start_nibble \div 2 + 4) .. (start_nibble \div 2 + 2 * n - 1) :
       At(data, k) = 0

slice_nibblesLowFirst(data, start_nibble, size) ==
  IF size = 1
    THEN (At(data, start_nibble \div 2)
            \div Pow2((start_nibble % 2) * 4)) % 16
  ELSE IF size = 2 THEN At(data, start_nibble \div 2)
  ELSE IF size = 4
    THEN At(data, start_nibble \div 2) * 256 + At(data, start_nibble \div 2 + 1)
  ELSE IF size \in {8, 16}
    THEN IF FitsInt(data, start_nibble, size \div 4)
           THEN SumShorts(data, start_nibble, size \div 4)
           ELSE SumShortsWide(data, start_nibble, size \div 4, 0)
  ELSE 0
slice_nibbles(data, start_nibble, size) ==
  IF size = 1
    THEN (At(data, start_nibble \div 2)
            \div Pow2(((start_nibble + 1) % 2) * 4)) % 16
  ELSE IF size = 2 THEN At(data, start_nibble \div 2)
  ELSE IF size = 4
    THEN At(data, start_nibble \div 2) * 256 + At(data, start_nibble \div 2 + 1)
  ELSE IF size \in {8, 16}
    THEN IF FitsInt(data, start_nibble, size \div 4)
           THEN SumShorts(data, start_nibble, size \div 4)
           ELSE SumShortsWide(data, start_nibble, size \div 4, 0)
  ELSE 0

\* val & (1 << (4 * size - 1)) is not zero
RECURSIVE SignBitSet(_, _)
SignBitSet(val, size) ==
  IF size = 1 THEN (val \div 8) % 2 = 1 ELSE SignBitSet(val \div 16, size - 1)

\* The integer a bit representation stands for, when it fits the checker.
RECURSIVE SumBits(_)
SumBits(bits) ==
  IF bits = {} THEN 0
  ELSE LET b == CHOOSE c \in bits : TRUE IN Pow2(b) + SumBits(bits \ {b})

\* sign(val, size): the bit 4 * size - 1 of val counts negatively
signUnsigned(val, size) == val
sign(val, size) ==
  IF SignBitSet(val, size) THEN val - 2 * Pow2(4 * size - 1) ELSE val
\* sign for a value of 2^31 and more, held as the set of its 1 bits:
\* -(val & mask) + (val & ~mask)
signWide(bits, size) ==
  IF (4 * size - 1) \in bits
    THEN (SumBits(bits \ {4 * size - 1}) - Pow2(4 * size - 2))
         - Pow2(4 * size - 2)
    ELSE SumBits(bits)

\* the loop body of parse_with_format over the chunks of the format in order
RECURSIVE ParseChunks(_, _, _, _, _)
ParseChunks(data, chunks, values, nibble, continuation) ==
  IF chunks = <<>> THEN [raised |-> "none", values |-> values]
  ELSE
    LET raw == Head(chunks)
        joins == Contains(raw, <<"l", "o">>) \/ continuation # <<>>
        joined == continuation \o raw
        waits == joins /\ ~Contains(joined, <<"h", "i">>)
        chunk == IF joins
                   THEN Remove(Remove(joined, <<"l", "o">>), <<"h", "i">>)
                   ELSE raw
    IN  IF waits
          THEN ParseChunks(data, Tail(chunks), values, nibble, joined)
        ELSE IF chunk = <<"o", "p">> \/ chunk = <<"Ø", "Ø">>
          THEN ParseChunks(data, Tail(chunks), values, nibble + 2, <<>>)
        ELSE IF IsUpper(chunk)
          THEN IF SliceNibblesRaises(data, nibble, Len(chunk))
                 THEN [raised |-> "IndexError", values |-> values]
                 ELSE ParseChunks(data, Tail(chunks),
                        (chunk[1] :> slice_nibbles(data, nibble, Len(chunk)))
                          @@ values,
                        nibble + Len(chunk), <<>>)
        ELSE [raised |-> "ValueError", values |-> values]

parse_with_format(data, fmt) ==
  ParseChunks(data, Concat([i \in 1 .. Len(Split(fmt, " ")) |->
                              Split(Split(fmt, " ")[i], "|")]),
              <<>>, 0, <<>>)

(***************************************************************************)
(* The instruction table, continued: SmaliInstructionInfo.syntax           *)
(***************************************************************************)
Syntax(op) ==
  CASE op \in {0, 14} \cup (62 .. 67) \cup {115} \cup (121 .. 122) \cup (227 .. 249) ->
         <<>>
    [] op \in {1, 4, 7, 33} \cup (123 .. 143) \cup (176 .. 207) ->
         <<"v", "A", ",", " ", "v", "B">>
    [] op \in {2, 5, 8} ->
         <<"v", "A", "A", ",", " ", "v", "B", "B", "B", "B">>
    [] op \in {3, 6, 9} ->
         <<"v", "A", "A", "A", "A", ",", " ", "v", "B", "B", "B", "B">>
    [] op \in (10 .. 13) \cup (15 .. 17) \cup (29 .. 30) \cup {39} ->
         <<"v", "A", "A">>
    [] op \in {18} ->
         <<"v", "A", ",", " ", "#", "+", "B">>
    [] op \in {19, 22} ->
         <<"v", "A", "A", ",", " ", "#", "+", "B", "B", "B", "B">>
    [] op \in {20, 23} ->
         <<"v", "A", "A", ",", " ", "#", "+", "B", "B", "B", "B", "B", "B", "B", "B">>
    [] op \in {21} ->
         <<"v", "A", "A", ",", " ", "#", "+", "B", "B", "B", "B", "0", "0", "0", "0">>
    [] op \in {24} ->
         <<"v", "A", "A", ",", " ", "#", "+", "B", "B", "B", "B", "B", "B", "B", "B", "B", "B", "B", "B", "B", "B", "B", "B">>
    [] op \in {25} ->
         <<"v", "A", "A", ",", " ", "#", "+", "B", "B", "B", "B", "0", "0", "0", "0", "0", "0", "0", "0", "0", "0", "0", "0">>
    [] op \in {26} ->
         <<"v", "A", "A", ",", " ", "s", "t", "r", "i", "n", "g", "@", "B", "B", "B", "B">>
    [] op \in {27} ->
         <<"v", "A", "A", ",", " ", "s", "t", "r", "i", "n", "g", "@", "B", "B", "B", "B", "B", "B", "B", "B">>
    [] op \in {28, 31, 34} ->
         <<"v", "A", "A", ",", " ", "t", "y", "p", "e", "@", "B", "B", "B", "B">>
    [] op \in {32, 35} ->
         <<"v", "A", ",", " ", "v", "B", ",", " ", "t", "y", "p", "e", "@", "C", "C", "C", "C">>
    [] op \in {36} ->
         <<"{", "v", "C", ",", " ", "v", "D", ",", " ", "v", "E", ",", " ", "v", "F", ",", " ", "v", "G", "}", ",", " ", "t", "y", "p", "e", "@", "B", "B", "B", "B">>
    [] op \in {37} ->
         <<"{", "v", "C", "C", "C", "C", " ", ".", ".", " ", "v", "N", "N", "N", "N", "}", ",", " ", "t", "y", "p", "e", "@", "B", "B", "B", "B">>
    [] op \in {38, 43, 44} ->
         <<"v", "A", "A", ",", " ", "+", "B", "B", "B", "B", "B", "B", "B", "B", " ">>
    [] op \in {40} ->
         <<"+", "A", "A">>
    [] op \in {41} ->
         <<"+", "A", "A", "A", "A">>
    [] op \in {42} ->
         <<"+", "A", "A", "A", "A", "A", "A", "A", "A">>
    [] op \in (45 .. 49) \cup (68 .. 81) \cup (144 .. 175) ->
         <<"v", "A", "A", ",", " ", "v", "B", "B", ",", " ", "v", "C", "C">>
    [] op \in (50 .. 55) ->
         <<"v", "A", ",", " ", "v", "B", ",", " ", "+", "C", "C", "C", "C">>
    [] op \in (56 .. 61) ->
         <<"v", "A", "A", ",", " ", "+", "B", "B", "B", "B">>
    [] op \in (82 .. 95) ->
         <<"v", "A", ",", " ", "v", "B", ",", " ", "f", "i", "e", "l", "d", "@", "C", "C", "C", "C">>
    [] op \in (96 .. 109) ->
         <<"v", "A", "A", ",", " ", "f", "i", "e", "l", "d", "@", "B", "B", "B", "B">>
    [] op \in (110 .. 114) ->
         <<"{", "v", "C", ",", " ", "v", "D", ",", " ", "v", "E", ",", " ", "v", "F", ",", " ", "v", "G", "}", ",", " ", "m", "e", "t", "h", "@", "B", "B", "B", "B">>
    [] op \in (116 .. 120) ->
         <<"{", "v", "C", "C", "C", "C", " ", ".", ".", " ", "v", "N", "N", "N", "N", "}", ",", " ", "m", "e", "t", "h", "@", "B", "B", "B", "B">>
    [] op \in (208 .. 215) ->
         <<"v", "A", ",", " ", "v", "B", ",", " ", "#", "+", "C", "C", "C", "C">>
    [] op \in (216 .. 226) ->
         <<"v", "A", "A", ",", " ", "v", "B", "B", ",", " ", "#", "+", "C", "C">>
    [] op \in {250} ->
         <<"{", "v", "C", ",", " ", "v", "D", ",", " ", "v", "E", ",", " ", "v", "F", ",", " ", "v", "G", "}", ",", " ", "m", "e", "t", "h", "@", "B", "B", "B", "B", ",", " ", "p", "r", "o", "t", "o", "@", "H", "H", "H", "H">>
    [] op \in {251} ->
         <<"{", "v", "C", "C", "C", "C", " ", ".", ".", " ", "v", "N", "N", "N", "N", "}", ",", " ", "m", "e", "t", "h", "@", "B", "B", "B", "B", ",", " ", "p", "r", "o", "t", "o", "@", "H", "H", "H", "H">>
    [] op \in {252} ->
         <<"{", "v", "C", ",", " ", "v", "D", ",", " ", "v", "E", ",", " ", "v", "F", ",", " ", "v", "G", "}", ",", " ", "c", "a", "l", "l", "_", "s", "i", "t", "e", "@", "B", "B", "B", "B">>
    [] op \in {253} ->
         <<"{", "v", "C", "C", "C", "C", " ", ".", ".", " ", "v", "N", "N", "N", "N", "}", ",", " ", "c", "a", "l", "l", "_", "s", "i", "t", "e", "@", "B", "B", "B", "B">>
    [] op \in {254} ->
         <<"v", "A", "A", ",", " ", "m", "e", "t", "h", "o", "d", "_", "h", "a", "n", "d", "l", "e", "@", "B", "B", "B", "B">>
    [] op \in {255} ->
         <<"v", "A", "A", ",", " ", "p", "r", "o", "t", "o", "@", "B", "B", "B", "B">>

(***************************************************************************)
(* Number formatting and parsing                                           *)
(***************************************************************************)
HexDigits == <<"0", "1", "2", "3", "4", "5", "6", "7", "8", "9",
               "a", "b", "c", "d", "e", "f">>
UpperHexDigits == <<"A", "B", "C", "D", "E", "F">>

RECURSIVE ToHex(_)
ToHex(n) ==
  IF n < 16 THEN <<HexDigits[n + 1]>>
  ELSE Append(ToHex(n \div 16), HexDigits[(n % 16) + 1])
RECURSIVE ToDec(_)
ToDec(n) ==
  IF n < 10 THEN <<HexDigits[n + 1]>>
  ELSE Append(ToDec(n \div 10), HexDigits[(n % 10) + 1])

\* f"{val:x}"
FormatX(val) == IF val < 0 THEN <<"-">> \o ToHex(-val) ELSE ToHex(val)
\* hex(val)
PyHex(val) ==
  IF val < 0 THEN <<"-", "0", "x">> \o ToHex(-val)
  ELSE <<"0", "x">> \o ToHex(val)
\* f"{val}"
FormatD(val) == IF val < 0 THEN <<"-">> \o ToDec(-val) ELSE ToDec(val)

IsHexDigit(c) ==
  \/ \E d \in 1 .. 16 : HexDigits[d] = c
  \/ \E d \in 1 .. 6 : UpperHexDigits[d] = c
DigitValue(c) ==
  IF \E d \in 1 .. 16 : HexDigits[d] = c
    THEN (CHOOSE d \in 1 .. 16 : HexDigits[d] = c) - 1
    ELSE (CHOOSE d \in 1 .. 6 : UpperHexDigits[d] = c) + 9
RECURSIVE HexValue(_)
HexValue(s) ==
  IF s = <<>> THEN 0
  ELSE HexValue(SubSeq(s, 1, Len(s) - 1)) * 16 + DigitValue(s[Len(s)])

\* int(s, 16) for a string of an optional sign and digits (the strings the
\* disassembler builds have no 0x prefix, underscores or blanks)
IntBody(s) == IF s # <<>> /\ s[1] \in {"-", "+"} THEN Tail(s) ELSE s
IntBase16Raises(s) ==
  IntBody(s) = <<>> \/ \E i \in 1 .. Len(IntBody(s)) : ~IsHexDigit(IntBody(s)[i])
IntBase16(s) ==
  IF s[1] = "-" THEN -HexValue(IntBody(s)) ELSE HexValue(IntBody(s))

(***************************************************************************)
(* format_args_with_syntax: re.sub(".[A-Z]+", fmt, syntax)                 *)
(***************************************************************************)
RECURSIVE UpperRun(_, _)
UpperRun(s, from) ==
  IF from <= Len(s) /\ s[from] \in UpperAZ THEN 1 + UpperRun(s, from + 1) ELSE 0

\* fmt(m) for the matched text m
FmtMatch(args, m) ==
  LET val == args[m[Len(m)]]
  IN  <<m[1]>> \o FormatX(IF m[1] \notin {"v", "@"}
                            THEN sign(val, Len(m) - 1) ELSE val)

\* args[m[0][-1]] raises KeyError for some match
RECURSIVE FormatArgsRaises(_, _)
FormatArgsRaises(args, syntax) ==
  IF Len(syntax) < 2 THEN FALSE
  ELSE IF syntax[1] # "\n" /\ syntax[2] \in UpperAZ
    THEN LET n == 1 + UpperRun(syntax, 2)
         IN  \/ syntax[n] \notin DOMAIN args
             \/ FormatArgsRaises(args, SubSeq(syntax, n + 1, Len(syntax)))
  ELSE FormatArgsRaises(args, Tail(syntax))

RECURSIVE format_args_with_syntax(_, _)
format_args_with_syntax(args, syntax) ==
  IF Len(syntax) < 2 THEN syntax
  ELSE IF syntax[1] # "\n" /\ syntax[2] \in UpperAZ
    THEN LET n == 1 + UpperRun(syntax, 2)
         IN  FmtMatch(args, SubSeq(syntax, 1, n))
             \o format_args_with_syntax(args, SubSeq(syntax, n + 1, Len(syntax)))
  ELSE <<syntax[1]>> \o format_args_with_syntax(args, Tail(syntax))

(***************************************************************************)
(* tokenize_syntax                                                         *)
(***************************************************************************)
\* InstructionTextToken(type, text): text is a sequence of string pieces,
\* value has the class's default 0
Token(type, text) == [type |-> type, text |-> text, value |-> 0]
TextToken(text) == Token("TextToken", text)

\* str.encode("unicode-escape").decode() of one ASCII character
EscapeChar(c) ==
  IF c = "\n" THEN <<"\\", "n">>
  ELSE IF c = "\t" THEN <<"\\", "t">>
  ELSE IF c = "\\" THEN <<"\\", "\\">>
  ELSE <<c>>
UnicodeEscape(str) == Concat([i \in 1 .. Len(str) |-> EscapeChar(str[i])])

\* the operand tokens of a lookup value such as field@0001
LookupTokens(df, word_formatted) ==
  LET parts == Split(word_formatted, "@")
      lookup_type == parts[1]
      lookup_index == IntBase16(parts[2])
      plain == [raised |-> "none", tokens |-> <<TextToken(word_formatted)>>,
                logs |-> <<"warn">>]
      fails(e) == [raised |-> e, tokens |-> <<>>, logs |-> <<>>]
      gives(toks) == [raised |-> "none", tokens |-> toks, logs |-> <<>>]
  IN  IF Len(parts) # 2 \/ IntBase16Raises(parts[2]) THEN fails("ValueError")
      ELSE IF lookup_type = <<"c", "a", "l", "l", "_", "s", "i", "t", "e">>
        THEN plain
      ELSE IF lookup_type = <<"f", "i", "e", "l", "d">>
        THEN IF lookup_index >= Len(df.field_ids) THEN fails("IndexError")
             ELSE LET field == df.field_ids[lookup_index + 1]
                  IN  gives(<<TextToken(field.class_), TextToken(<<"->">>),
                              TextToken(field.name), TextToken(<<":">>),
                              TextToken(field.type_)>>)
      ELSE IF lookup_type = <<"m", "e", "t", "h">>
        THEN IF lookup_index >= Len(df.method_ids) THEN fails("IndexError")
             ELSE LET meth == df.method_ids[lookup_index + 1]
                  IN  gives(<<TextToken(meth.class_), TextToken(<<"->">>),
                              IF meth._insns_off # None
                                THEN [type |-> "PossibleAddressToken",
                                      text |-> meth.name,
                                      value |-> meth._insns_off]
                                ELSE TextToken(meth.name),
                              TextToken(<<"(">>)>>
                            \o [i \in 1 .. Len(meth.proto.parameters) |->
                                  TextToken(meth.proto.parameters[i])]
                            \o <<TextToken(<<")">>),
                                 TextToken(meth.proto.return_type)>>)
      ELSE IF lookup_type = <<"m", "e", "t", "h", "o", "d", "_",
                              "h", "a", "n", "d", "l", "e">>
        THEN plain
      ELSE IF lookup_type = <<"p", "r", "o", "t", "o">>
        THEN plain
      ELSE IF lookup_type = <<"s", "t", "r", "i", "n", "g">>
        THEN IF lookup_index >= Len(df.strings) THEN fails("IndexError")
             ELSE gives(<<TextToken(<<"\"">>),
                          TextToken(UnicodeEscape(df.strings[lookup_index + 1])),
                          TextToken(<<"\"">>)>>)
      ELSE IF lookup_type = <<"t", "y", "p", "e">>
        THEN IF lookup_index >= Len(df.type_ids) THEN fails("IndexError")
             ELSE gives(<<TextToken(df.type_ids[lookup_index + 1])>>)
      ELSE [plain EXCEPT !.logs = <<"error">>]

\* the operand tokens of a formatted word
OperandTokens(df, word_formatted) ==
  LET fails(e) == [raised |-> e, tokens |-> <<>>, logs |-> <<>>]
      gives(toks, lg) == [raised |-> "none", tokens |-> toks, logs |-> lg]
  IN  IF word_formatted = <<>> THEN gives(<<>>, <<>>)
      ELSE IF word_formatted[1] = "v"
        THEN IF IntBase16Raises(Tail(word_formatted)) THEN fails("ValueError")
             ELSE LET val == IntBase16(Tail(word_formatted))
                  IN  gives(<<Token("RegisterToken", <<"v">> \o FormatD(val))>>,
                            IF val >= 256 THEN <<"warn">> ELSE <<>>)
      ELSE IF SubSeq(word_formatted, 1, Min(2, Len(word_formatted))) = <<"#", "+">>
        THEN IF IntBase16Raises(SliceFrom(word_formatted, 2))
               THEN fails("ValueError")
               ELSE gives(<<Token("IntegerToken",
                                  PyHex(IntBase16(SliceFrom(word_formatted, 2))))>>,
                          <<>>)
      ELSE IF \E i \in 1 .. Len(word_formatted) : word_formatted[i] = "@"
        THEN LookupTokens(df, word_formatted)
      ELSE IF word_formatted[1] = "+"
        THEN IF IntBase16Raises(Tail(word_formatted)) THEN fails("ValueError")
             ELSE gives((IF IntBase16(Tail(word_formatted)) >= 0
                           THEN <<TextToken(<<"+">>)>> ELSE <<>>)
                        \o <<Token("PossibleAddressToken", Tail(word_formatted))>>,
                        <<>>)
      ELSE IF word_formatted = <<".", ".">>
        THEN gives(<<TextToken(<<".", ".">>)>>, <<>>)
      ELSE gives(<<TextToken(word_formatted)>>, <<"warn">>)

tokenize_syntax(df, word, args) ==
  LET fails(e) == [raised |-> e, tokens |-> <<>>, logs |-> <<>>]
      trailing_comma == word[Len(word)] = ","
      w1 == IF trailing_comma THEN SubSeq(word, 1, Len(word) - 1) ELSE word
      trailing_curly_brace == w1[Len(w1)] = "}"
      w2 == IF trailing_curly_brace THEN SubSeq(w1, 1, Len(w1) - 1) ELSE w1
      leading == w2[1] = "{"
      w3 == IF leading THEN Tail(w2) ELSE w2
      operand == OperandTokens(df, format_args_with_syntax(args, w3))
  IN  IF w1 = <<>> \/ w2 = <<>> THEN fails("IndexError")
      ELSE IF FormatArgsRaises(args, w3) THEN fails("KeyError")
      ELSE IF operand.raised # "none" THEN operand
      ELSE [raised |-> "none",
            tokens |-> <<TextToken(<<" ">>)>>
                       \o (IF leading THEN <<TextToken(<<"{">>)>> ELSE <<>>)
                       \o operand.tokens
                       \o (IF trailing_curly_brace
                             THEN <<TextToken(<<"}">>)>> ELSE <<>>)
                       \o (IF trailing_comma
                             THEN <<Token("OperandSeparatorToken", <<",">>)>>
                             ELSE <<>>),
            logs |-> operand.logs]

(***************************************************************************)
(* disassemble                                                             *)
(***************************************************************************)
RECURSIVE LowerRun(_, _)
LowerRun(s, from) ==
  IF from <= Len(s) /\ s[from] \in LowerAZ THEN 1 + LowerRun(s, from + 1) ELSE 0

\* the positions at which re.search("\\s([a-z]+)@", syntax) can match
KindMatches(syntax) ==
  {i \in 1 .. Len(syntax) :
     /\ syntax[i] = " "
     /\ LowerRun(syntax, i + 1) >= 1
     /\ i + 1 + LowerRun(syntax, i + 1) <= Len(syntax)
     /\ syntax[i + 1 + LowerRun(syntax, i + 1)] = "@"}
\* m.group(1) of the leftmost match
Kind(syntax) ==
  LET i == CHOOSE j \in KindMatches(syntax) :
             \A k \in KindMatches(syntax) : j <= k
  IN  SubSeq(syntax, i + 1, i + LowerRun(syntax, i + 1))

\* "{vC, vD, vE}" for n registers
RegNames == <<"C", "D", "E", "F", "G">>
RECURSIVE RegListBody(_)
RegListBody(n) ==
  IF n = 0 THEN <<>>
  ELSE IF n = 1 THEN <<"v", RegNames[1]>>
  ELSE RegListBody(n - 1) \o <<",", " ", "v", RegNames[n]>>
RegList(n) == <<"{">> \o RegListBody(n) \o <<"}">>

\* the syntax disassemble tokenizes, after the 35c and [A= fix-ups
FixedSyntax(op, args) ==
  LET formatid == FormatId(op)
      fails(e, lg) == [raised |-> e, syntax |-> <<>>, logs |-> lg]
      gives(sx, lg) == [raised |-> "none", syntax |-> sx, logs |-> lg]
      nokind == KindMatches(Syntax(op)) = {}
  IN  IF formatid = "35c"
        THEN IF args["A"] \in 0 .. 5
               THEN IF nokind THEN fails("UnboundLocalError", <<"error">>)
                    ELSE gives(RegList(args["A"]) \o <<",", " ">>
                               \o Kind(Syntax(op)) \o <<"@", "B", "B", "B", "B">>,
                               <<>>)
               ELSE gives(<<"e", "r", "r", "o", "r", " ", "(", "3", "5", "c", ")">>,
                          (IF nokind THEN <<"error">> ELSE <<>>) \o <<"error">>)
      ELSE IF formatid = "45cc"
        THEN IF args["A"] \in 1 .. 5
               THEN gives(RegList(args["A"])
                          \o <<",", " ", "m", "e", "t", "h", "@", "B", "B", "B", "B",
                               ",", " ", "p", "r", "o", "t", "o", "@",
                               "H", "H", "H", "H">>, <<>>)
               ELSE gives(<<"e", "r", "r", "o", "r">>, <<"error">>)
      ELSE gives(Syntax(op), <<>>)

\* the loop over syntax.split(" ")
RECURSIVE TokenizeWords(_, _, _)
TokenizeWords(df, words, args) ==
  IF words = <<>> THEN [raised |-> "none", tokens |-> <<>>, logs |-> <<>>]
  ELSE IF Head(words) = <<>> \/ \A i \in 1 .. Len(Head(words)) : Head(words)[i] = " "
    THEN TokenizeWords(df, Tail(words), args)
  ELSE LET first == tokenize_syntax(df, Head(words), args)
           rest == TokenizeWords(df, Tail(words), args)
       IN  IF first.raised # "none" THEN first
           ELSE IF rest.raised # "none"
             THEN [rest EXCEPT !.logs = first.logs \o rest.logs]
           ELSE [raised |-> "none", tokens |-> first.tokens \o rest.tokens,
                 logs |-> first.logs \o rest.logs]

\* repr of a bytes object, every byte written as \xNN
BytesRepr(data) ==
  <<"b'">> \o Concat([i \in 1 .. Len(data) |->
                        <<"\\x", HexDigits[data[i] \div 16 + 1],
                          HexDigits[(data[i] % 16) + 1]>>]) \o <<"'">>

\* the text of a payload
PayloadText(ps) ==
  IF ps.kind = "packed-switch"
    THEN <<".packed-switch ">> \o PyHex(ps.first_key) \o <<"\n">>
         \o Concat([i \in 1 .. Len(ps.targets) |->
                      <<"        :pswitch_offset_">> \o FormatX(ps.targets[i])
                      \o <<"\n">>])
         \o <<"    .end packed-switch">>
  ELSE IF ps.kind = "sparse-switch"
    THEN <<".sparse-switch\n">>
         \o Concat([i \in 1 .. ps.size |->
                      <<"        ">> \o PyHex(ps.keys[i])
                      \o <<" -> :sswitch_offset_">> \o FormatX(ps.targets[i])
                      \o <<"\n">>])
         \o <<"    .end sparse-switch">>
  ELSE <<"pseudo-instruction: ", "SmaliFillArrayDataPayload(_total_size=">>
       \o FormatD(ps._total_size) \o <<", element_width=">>
       \o FormatD(ps.element_width) \o <<", size=">> \o FormatD(ps.size)
       \o <<", data=">> \o BytesRepr(ps.data) \o <<")">>

disassemble(df, data, addr) ==
  LET fails(e, lg) == [raised |-> e, tokens |-> <<>>, length |-> 0, logs |-> lg]
      gives(toks, n, lg) ==
        [raised |-> "none", tokens |-> toks, length |-> n, logs |-> lg]
      op == data[1]
      insn_len == InsnLen(op)
      taken == Slice(data, 0, 2 * insn_len)
      data_to_parse == endian_swap_shorts(taken)
      parsed == parse_with_format(data_to_parse, Format(FormatId(op)))
      args == IF FormatId(op) \in {"3rc", "4rcc"}
                THEN ("N" :> (parsed.values["A"] + parsed.values["C"] - 1))
                     @@ parsed.values
                ELSE parsed.values
      fixed == FixedSyntax(op, args)
      words == TokenizeWords(df, Split(fixed.syntax, " "), args)
  IN  IF Len(data) < 2 THEN gives(<<>>, 0, <<"warn">>)
      ELSE IF data[1] = 0 /\ data[2] # 0
        THEN IF data[2] > 3 THEN fails("ValueError", <<>>)
             ELSE IF addr \notin DOMAIN df.pseudoinstructions
               THEN fails("KeyError", <<>>)
             ELSE gives(<<Token("InstructionToken",
                                PayloadText(df.pseudoinstructions[addr]))>>,
                        df.pseudoinstructions[addr]._total_size, <<>>)
      ELSE IF Len(taken) % 2 # 0 THEN fails("AssertionError", <<>>)
      ELSE IF Len(data_to_parse) # insn_len * 2
        THEN gives(<<>>, insn_len * 2, <<"error">>)
      ELSE IF parsed.raised # "none" THEN fails(parsed.raised, <<>>)
      ELSE IF fixed.raised # "none" THEN fails(fixed.raised, fixed.logs)
      ELSE IF words.raised # "none"
        THEN fails(words.raised, fixed.logs \o words.logs)
      ELSE gives(<<Token("InstructionToken", <<Mnemonic(op)>>)>> \o words.tokens,
                 insn_len * 2, fixed.logs \o words.logs)

(***************************************************************************)
(* Smali.get_instruction_info                                              *)
(***************************************************************************)
Branch(type, target) == [type |-> type, target |-> target]

get_instruction_info(df, data, addr) ==
  LET fails(e) == [raised |-> e, length |-> 0, branches |-> <<>>,
                   logs |-> <<>>]
      gives(n, br) == [raised |-> "none", length |-> n, branches |-> br,
                       logs |-> <<>>]
      op == data[1]
      insn_len == InsnLen(op)
      taken == Slice(data, 0, 2 * insn_len)
      fmt == Format(FormatId(op))
      parsed == parse_with_format(endian_swap_shorts(taken), fmt)
      args == parsed.values
      parses == op \in StartsWithGoto \cup IsSwitch \cup IsFillArrayData
                       \cup StartsWithIf
                       \cup (StartsWithInvoke \ StartsWithInvokeCustom)
      var == IF "C" \in DOMAIN args THEN "C" ELSE "B"
      fall == addr + insn_len * 2
      \* sign(args[letter], fmt.count(letter)); the 8-nibble fields start at
      \* nibble 4
      signed(letter) ==
        IF Count(fmt, letter) = 8 /\ ~FitsInt(endian_swap_shorts(taken), 4, 2)
          THEN signWide(args[letter], 8)
          ELSE sign(args[letter], Count(fmt, letter))
  IN  IF Len(data) < 1 THEN fails("IndexError")
      ELSE IF data[1] = 0 /\ Len(data) < 2 THEN fails("IndexError")
      ELSE IF data[1] = 0 /\ data[2] # 0
        THEN IF data[2] > 3 THEN gives(2, <<>>)
             ELSE IF addr \notin DOMAIN df.pseudoinstructions
               THEN fails("KeyError")
             ELSE gives(Min(max_instr_length,
                            df.pseudoinstructions[addr]._total_size),
                        <<Branch("FunctionReturn", None)>>)
      ELSE IF op \in StartsWithReturn
        THEN gives(insn_len * 2, <<Branch("FunctionReturn", None)>>)
      ELSE IF op \in IsThrow
        THEN gives(insn_len * 2, <<Branch("ExceptionBranch", None)>>)
      ELSE IF op \in StartsWithInvokeCustom
        THEN [gives(insn_len * 2, <<Branch("UnresolvedBranch", None)>>)
                EXCEPT !.logs = <<"warn">>]
      ELSE IF ~parses THEN gives(insn_len * 2, <<>>)
      ELSE IF Len(taken) % 2 # 0 THEN fails("AssertionError")
      ELSE IF parsed.raised # "none" THEN fails(parsed.raised)
      ELSE IF op \in StartsWithGoto
        THEN gives(insn_len * 2,
                   <<Branch("UnconditionalBranch",
                            addr + signed("A") * 2)>>)
      ELSE IF op \in IsSwitch
        THEN gives(insn_len * 2, <<Branch("UnresolvedBranch", None)>>)
      ELSE IF op \in IsFillArrayData
        THEN gives(insn_len * 2,
                   <<Branch("TrueBranch",
                            addr + signed("B") * 2),
                     Branch("FalseBranch", fall)>>)
      ELSE IF op \in StartsWithIf
        THEN gives(insn_len * 2,
                   <<Branch("TrueBranch",
                            addr + signed(var) * 2),
                     Branch("FalseBranch", fall)>>)
      ELSE IF args["B"] >= Len(df.method_ids) THEN fails("IndexError")
      ELSE gives(insn_len * 2,
                 IF df.method_ids[args["B"] + 1]._insns_off # None
                   THEN <<Branch("CallDestination",
                                 df.method_ids[args["B"] + 1]._insns_off)>>
                   ELSE <<>>)

(***************************************************************************)
(* Code streams: the inputs                                                *)
(***************************************************************************)
MaxItems == 2        \* instructions and payloads in a stream
MaxTrunc == 1        \* code units cut off the end of a stream

U16(n) == <<n % 256, n \div 256>>
U32(n) == <<n % 256, (n \div 256) % 256, (n \div 65536) % 256, n \div 16777216>>
Repeat(n, bytes) ==
  [i \in 1 .. (n * Len(bytes)) |-> bytes[((i - 1) % Len(bytes)) + 1]]

\* payloads as they lie in the file; every key, target and data byte is b
PackedSwitchBytes(size, b) ==
  <<0, 1>> \o U16(size) \o U32(b) \o Repeat(size, U32(b))
SparseSwitchBytes(size, b) ==
  <<0, 2>> \o U16(size) \o Repeat(size, U32(b)) \o Repeat(size, U32(b))
FillArrayDataBytes(element_width, size, b) ==
  <<0, 3>> \o U16(element_width) \o U32(size)
  \o Repeat(element_width * size, <<b>>)
  \o (IF (element_width * size) % 2 = 1 THEN <<0>> ELSE <<>>)

PackedSizes == {2, 49}
SparseSizes == {1, 25}
FillShapes == {<<1, 3>>, <<1, 193>>}
StreamFill == {14, 20}     \* return-void and const, as payload content

Instructions ==
  { <<0, 0>>,                    \* nop
    <<40, 1>>,                   \* goto +1
    <<20, 0, 1, 0, 0, 0>>,       \* const v0, #+1
    <<26, 0, 0, 0>>,             \* const-string v0, string@0
    <<26, 0, 0, 1>>,             \* const-string v0, string@256
    <<113, 0, 0, 0, 0, 0>>,      \* invoke-static {}, meth@0
    <<0, 4>> }                   \* an unknown pseudo-instruction

Items(b) ==
  Instructions
  \cup {PackedSwitchBytes(size, b) : size \in PackedSizes}
  \cup {SparseSwitchBytes(size, b) : size \in SparseSizes}
  \cup {FillArrayDataBytes(shape[1], shape[2], b) : shape \in FillShapes}

RECURSIVE Streams(_, _)
Streams(n, b) ==
  IF n = 0 THEN {<<>>}
  ELSE {stream \o item : stream \in Streams(n - 1, b), item \in Items(b)}

\* the pools of the container the streams belong to
CodePools ==
  [strings |-> << <<"h", "i">> >>,
   type_ids |-> << <<"L", "a", ";">> >>,
   field_ids |-> << [class_ |-> <<"L", "a", ";">>, name |-> <<"f">>,
                     type_ |-> <<"I">>] >>,
   method_ids |-> << [class_ |-> <<"L", "a", ";">>, name |-> <<"m">>,
                      _insns_off |-> None,
                      proto |-> [parameters |-> << <<"I">> >>,
                                 return_type |-> <<"V">>]] >>]
Df(pools, ps) ==
  [strings |-> pools.strings, type_ids |-> pools.type_ids,
   field_ids |-> pools.field_ids, method_ids |-> pools.method_ids,
   pseudoinstructions |-> ps]

CODE_ITEM_HEADER_SIZE == 16
CodeItemOffsets == {112}

(***************************************************************************)
(* Code streams: parse_code_items reads a stream and extracts its          *)
(* payloads; then the host walks it with get_instruction_info and          *)
(* write_method walks it with disassemble                                  *)
(***************************************************************************)
otherThanCode ==
  <<ctorVars, methVars, handleVars, disVars, callVars, readVars,
    pickleVars>>
extractVars == <<insns, code_offset, pseudoinstructions, code_pc, code_raised,
                 visited, resumed, unknown_seen>>
infoVars == <<ii_off, ii_sum, ii_last, ii_state>>
walkVars == <<dis_off, dis_last, dis_state>>

\* the first code unit at a position, as the file has it
HeadOf(bytes, off) == Slice(bytes, off, off + 2)
IsUnknownPseudo(head) == Len(head) = 2 /\ head[1] = 0 /\ head[2] > 3

\* code_item.insns is built from the file
ReadCodeItem ==
  /\ code_pc = "read"
  /\ insns' = PackInsns(file)
  /\ code_offset' = 0
  /\ code_pc' = "extract"
  /\ UNCHANGED <<file, insns_off, dropped, pseudoinstructions, code_raised,
                 visited, resumed, unknown_seen, infoVars, walkVars>>
  /\ UNCHANGED otherThanCode

\* one iteration of the loop of disassemble_pseudoinstructions
ExtractStep ==
  /\ code_pc = "extract"
  /\ code_offset < Len(insns)
  /\ \E r \in {ExtractAt(insns, code_offset)}, addr \in {insns_off + code_offset} :
         IF r.raised # "none"
           THEN /\ code_raised' = r.raised
                /\ code_pc' = "raised"
                /\ UNCHANGED <<code_offset, pseudoinstructions, visited,
                               resumed, unknown_seen>>
           ELSE /\ code_offset' = r.next
                /\ pseudoinstructions' =
                     IF r.found THEN (addr :> r.payload) @@ pseudoinstructions
                     ELSE pseudoinstructions
                /\ visited' = visited \cup {addr}
                /\ resumed' =
                     IF r.found THEN resumed \cup {<<addr, insns_off + r.next>>}
                     ELSE resumed
                /\ unknown_seen' =
                     IF r.unknown
                       THEN unknown_seen
                            \cup {<<addr, insns_off + r.next, <<"error">> >>}
                       ELSE unknown_seen
                /\ UNCHANGED <<code_pc, code_raised>>
  /\ UNCHANGED <<file, insns_off, dropped, insns, infoVars, walkVars>>
  /\ UNCHANGED otherThanCode

\* the loop ends and the map is stored on the container; the container is
\* then read by one of its two consumers, the host through the architecture
\* plugin or the disas_to_files script
ExtractDone ==
  /\ code_pc = "extract"
  /\ code_offset >= Len(insns)
  /\ code_pc' = "loaded"
  /\ \E consumer \in {"host", "script"} :
       /\ ii_state' = IF consumer = "host" THEN "walking" ELSE "idle"
       /\ dis_state' = IF consumer = "script" THEN "walking" ELSE "idle"
  /\ UNCHANGED <<file, insns_off, dropped, insns, code_offset,
                 pseudoinstructions, code_raised, visited, resumed,
                 unknown_seen, ii_off, ii_sum, ii_last, dis_off, dis_last>>
  /\ UNCHANGED otherThanCode

\* the host asks for the instruction at ii_off and advances by its length
InfoStep ==
  /\ ii_state = "walking"
  /\ ii_off < Len(file)
  /\ \E addr \in {insns_off + ii_off} :
     \E r \in {get_instruction_info(Df(CodePools, pseudoinstructions),
                                   Slice(file, ii_off, ii_off + max_instr_length),
                                   addr)} :
         /\ ii_last' = [called |-> TRUE, addr |-> addr,
                        head |-> HeadOf(file, ii_off), raised |-> r.raised,
                        length |-> r.length, branches |-> r.branches,
                        logs |-> r.logs]
         /\ IF r.raised # "none"
              THEN ii_state' = "raised" /\ UNCHANGED <<ii_off, ii_sum>>
              ELSE /\ ii_off' = ii_off + r.length
                   /\ ii_sum' = ii_sum + r.length
                   /\ UNCHANGED ii_state
  /\ UNCHANGED <<file, insns_off, dropped, extractVars, walkVars>>
  /\ UNCHANGED otherThanCode

InfoDone ==
  /\ ii_state = "walking"
  /\ ii_off >= Len(file)
  /\ ii_state' = "done"
  /\ UNCHANGED <<file, insns_off, dropped, extractVars, ii_off, ii_sum, ii_last,
                 walkVars>>
  /\ UNCHANGED otherThanCode

\* one iteration of the loop of write_method
DisStep ==
  /\ dis_state = "walking"
  /\ dis_off < Len(insns)
  /\ \E addr \in {insns_off + dis_off},
        data \in {endian_swap_shorts(SliceFrom(insns, dis_off))} :
     \E r \in {disassemble(Df(CodePools, pseudoinstructions), data, addr)} :
         /\ dis_last' = [called |-> TRUE, addr |-> addr,
                         head |-> HeadOf(data, 0), raised |-> r.raised,
                         length |-> r.length, tokens |-> r.tokens,
                         logs |-> r.logs]
         /\ dis_off' = IF r.raised # "none" THEN dis_off + 2
                       ELSE dis_off + r.length
  /\ UNCHANGED <<file, insns_off, dropped, extractVars, infoVars, dis_state>>
  /\ UNCHANGED otherThanCode

DisDone ==
  /\ dis_state = "walking"
  /\ dis_off >= Len(insns)
  /\ dis_state' = "done"
  /\ UNCHANGED <<file, insns_off, dropped, extractVars, infoVars, dis_off,
                 dis_last>>
  /\ UNCHANGED otherThanCode

CodeNext ==
  \/ ReadCodeItem
  \/ ExtractStep
  \/ ExtractDone
  \/ InfoStep
  \/ InfoDone
  \/ DisStep
  \/ DisDone

CodeInit ==
  /\ \E n \in 1 .. MaxItems, b \in StreamFill, k \in 0 .. MaxTrunc :
       \E stream \in Streams(n, b) :
         /\ Len(stream) > 2 * k
         /\ file = SubSeq(stream, 1, Len(stream) - 2 * k)
         /\ dropped = k
  /\ insns_off \in {off + CODE_ITEM_HEADER_SIZE : off \in CodeItemOffsets}
  /\ insns = <<>>
  /\ code_offset = 0
  /\ pseudoinstructions = <<>>
  /\ code_pc = "read"
  /\ code_raised = "none"
  /\ visited = {}
  /\ resumed = {}
  /\ unknown_seen = {}
  /\ ii_off = 0
  /\ ii_sum = 0
  /\ ii_last = [called |-> FALSE]
  /\ ii_state = "idle"
  /\ dis_off = 0
  /\ dis_last = [called |-> FALSE]
  /\ dis_state = "idle"

(***************************************************************************)
(* Single calls of disassemble                                             *)
(***************************************************************************)
MaxIndex == 2      \* pool indexes in the operands
MaxPool == 2       \* entries in each pool

otherThanDis ==
  <<ctorVars, methVars, handleVars, codeVars, callVars, readVars,
    pickleVars>>

\* a container whose four pools have n entries each
PoolsOfSize(n) ==
  [strings |-> [i \in 1 .. n |-> <<"s", HexDigits[i + 1]>>],
   type_ids |-> [i \in 1 .. n |-> <<"L", HexDigits[i + 1], ";">>],
   field_ids |-> [i \in 1 .. n |->
                    [class_ |-> <<"L", "a", ";">>,
                     name |-> <<"f", HexDigits[i + 1]>>, type_ |-> <<"I">>]],
   method_ids |-> [i \in 1 .. n |->
                     [class_ |-> <<"L", "a", ";">>,
                      name |-> <<"m", HexDigits[i + 1]>>,
                      _insns_off |-> IF i = 1 THEN None ELSE 128,
                      proto |-> [parameters |-> <<>>,
                                 return_type |-> <<"V">>]]]]

\* whole instructions, in file order
DisInstructions ==
  { <<0, 0>>, <<14, 0>>, <<0, 4>>, <<0, 1>>, <<18, 16>>, <<40, 255>>,
    <<20, 0, 1, 0, 0, 0>>, <<19, 0, 255, 255>>,
    <<24, 0, 1, 0, 0, 0, 0, 0, 0, 0>> }
  \cup {<<26, 0, i, 0>> : i \in 0 .. MaxIndex}              \* const-string
  \cup {<<28, 1, i, 0>> : i \in 0 .. MaxIndex}              \* const-class
  \cup {<<96, 2, i, 0>> : i \in 0 .. MaxIndex}              \* sget
  \cup {<<82, 16, i, 0>> : i \in 0 .. MaxIndex}             \* iget
  \cup {<<113, 16, i, 0, 3, 0>> : i \in 0 .. MaxIndex}      \* invoke-static
  \cup {<<116, 2, i, 0, 5, 0>> : i \in 0 .. MaxIndex}       \* invoke-virtual/range

\* every prefix of every instruction
DisInputs ==
  {Slice(insn, 0, n) : insn \in DisInstructions, n \in 0 .. 10}

Disassemble ==
  /\ ~d_res.called
  /\ \E r \in {disassemble(Df(d_df, <<>>), d_data, 0)} :
       d_res' = [called |-> TRUE, raised |-> r.raised, tokens |-> r.tokens,
                   length |-> r.length, logs |-> r.logs]
  /\ UNCHANGED <<d_data, d_df>>
  /\ UNCHANGED otherThanDis

DisNext == Disassemble

DisInit ==
  /\ d_data \in DisInputs
  /\ d_df \in {PoolsOfSize(n) : n \in 0 .. MaxPool}
  /\ d_res = [called |-> FALSE]

(***************************************************************************)
(* LEB128: parse_sleb128, parse_uleb128, parse_uleb128p1                   *)
(*                                                                         *)
(* Python integers are unbounded.  A non-negative integer is the set of    *)
(* the positions of its 1 bits; a negative integer v is written as the     *)
(* bits of -1 - v (its complement), as in two's complement.                *)
(***************************************************************************)
BitsOf(n) == {b \in 0 .. 7 : (n \div Pow2(b)) % 2 = 1}
\* x << k
ShiftLeft(bits, k) == {b + k : b \in bits}
\* x ^ y
Xor(x, y) == (x \ y) \cup (y \ x)
NonNeg(bits) == [neg |-> FALSE, bits |-> bits]
\* -1 - val for a non-negative val
MinusOneMinus(bits) == [neg |-> TRUE, bits |-> bits]
\* val - 1 for a non-negative val
MinusOne(bits) ==
  IF bits = {} THEN MinusOneMinus({})
  ELSE LET low == CHOOSE b \in bits : \A c \in bits : b <= c
       IN  NonNeg((bits \ {low}) \cup (0 .. (low - 1)))

\* the loop shared by the three parsers: i and val when it ends, IndexError
\* when it runs off the end of data
RECURSIVE LebLoop(_, _, _)
LebLoop(data, i, val) ==
  IF At(data, i) < 128 THEN [raised |-> "none", i |-> i, val |-> val]
  ELSE IF i + 1 >= Len(data) THEN [raised |-> "IndexError", i |-> i, val |-> val]
  ELSE LebLoop(data, i + 1,
               val \cup ShiftLeft(BitsOf(At(data, i + 1) % 128), 7 * (i + 1)))
LebRead(data) ==
  IF data = <<>> THEN [raised |-> "IndexError", i |-> 0, val |-> {}]
  ELSE LebLoop(data, 0, BitsOf(At(data, 0) % 128))

\* the position of the bit tested by val & (0x40 << (i * 7))
SignBitWrong(i) == 7 + i * 7
SignBit(i) == 6 + i * 7

\* for j in range(6 + i * 7, -1, -1): the break is taken when val | (1 << j)
\* is zero
RECURSIVE FlipDown(_, _)
FlipDown(val, j) ==
  IF j < 0 THEN val
  ELSE IF val \cup {j} = {} THEN val
  ELSE FlipDown(Xor(val, {j}), j - 1)

LebResult(r, value) ==
  IF r.raised # "none" THEN [raised |-> r.raised]
  ELSE [raised |-> "none", val |-> value, len |-> r.i + 1]

parse_sleb128(data) ==
  LebResult(LebRead(data),
            IF SignBit(LebRead(data).i) \in LebRead(data).val
              THEN MinusOneMinus(FlipDown(LebRead(data).val,
                                          6 + LebRead(data).i * 7))
              ELSE NonNeg(LebRead(data).val))
parse_uleb128(data) == LebResult(LebRead(data), NonNeg(LebRead(data).val))
parse_uleb128p1(data) == LebResult(LebRead(data), MinusOne(LebRead(data).val))

MaxLebLen == 6      \* bytes in an input

\* bytes with the continuation bit set, and bytes that end a sequence
LebMore == {128, 255, 229}
LebLast == {0, 1, 7, 8, 15, 38, 64, 89, 120, 127}
RECURSIVE LebPrefixes(_)
LebPrefixes(n) ==
  IF n = 0 THEN {<<>>}
  ELSE LebPrefixes(n - 1)
       \cup {Append(s, b) : s \in {q \in LebPrefixes(n - 1) : Len(q) = n - 1},
                            b \in LebMore}
\* sequences that end, followed or not by a byte of other data, and
\* sequences that do not end
LebInputs ==
  {Append(s, b) : s \in LebPrefixes(MaxLebLen - 1), b \in LebLast}
  \cup {s \o <<b, 88>> : s \in LebPrefixes(2), b \in LebLast}
  \cup LebPrefixes(MaxLebLen)

otherThanCall ==
  <<ctorVars, methVars, handleVars, codeVars, disVars, readVars, pickleVars>>

Call(name, result) ==
  /\ f_name = "none"
  /\ f_name' = name
  /\ f_res' = result
  /\ UNCHANGED f_arg
  /\ UNCHANGED otherThanCall

ParseSleb128 == Call("parse_sleb128", parse_sleb128(f_arg))
ParseUleb128 == Call("parse_uleb128", parse_uleb128(f_arg))
ParseUleb128p1 == Call("parse_uleb128p1", parse_uleb128p1(f_arg))

LebNext ==
  \/ ParseSleb128
  \/ ParseUleb128
  \/ ParseUleb128p1

LebInit ==
  /\ f_name = "none"
  /\ f_arg \in LebInputs
  /\ f_res = [raised |-> "none"]

(***************************************************************************)
(* MUTF-8: parse_mutf8.  A str is the sequence of its code points.         *)
(***************************************************************************)
IsContinuation(b) == b \in 128 .. 191

\* ord(bytes.decode("utf-8", "surrogatepass")) of the slice data[i : i + 3]
\* whose first byte has bits 0x80 and 0x20 set
Utf8Decode3(s) ==
  IF /\ Len(s) = 3
     /\ s[1] \in 224 .. 239
     /\ IsContinuation(s[2])
     /\ IsContinuation(s[3])
     /\ (s[1] = 224 => s[2] >= 160)
    THEN [raised |-> "none",
          code_point |-> (s[1] % 16) * 4096 + (s[2] % 64) * 64 + (s[3] % 64)]
    ELSE [raised |-> "UnicodeDecodeError", code_point |-> 0]

\* bytes.decode("utf-8") of the slice data[i : i + 2] whose first byte has
\* bit 0x80 set and bit 0x20 clear
Utf8Decode2(s) ==
  IF Len(s) = 2 /\ s[1] \in 194 .. 223 /\ IsContinuation(s[2])
    THEN [raised |-> "none", chars |-> <<(s[1] % 32) * 64 + (s[2] % 64)>>]
    ELSE [raised |-> "UnicodeDecodeError", chars |-> <<>>]

IsHighSurrogate(c) == c \in 55296 .. 56319
IsLowSurrogate(c) == c \in 56320 .. 57343
\* (pack("<H", first) + pack("<H", second)).decode("utf-16", "surrogatepass")
Utf16PairNeverJoined(first, second) == <<first, second>>
Utf16Pair(first, second) ==
  IF IsHighSurrogate(first) /\ IsLowSurrogate(second)
    THEN <<65536 + (first - 55296) * 1024 + (second - 56320)>>
    ELSE <<first, second>>

\* if code_point < 0xD7FF or 0xE000 < code_point < 0xFFFF
NotPartOfPair(code_point) ==
  code_point < 55295 \/ (57344 < code_point /\ code_point < 65535)

\* the while loop and what follows it
RECURSIVE Mutf8Loop(_, _, _, _, _)
Mutf8Loop(data, i, chars, part_of_surrogate_pair, surrogate_first) ==
  IF i >= Len(data) THEN [raised |-> "IndexError"]
  ELSE IF At(data, i) = 0
    THEN [raised |-> "none",
          text |-> IF part_of_surrogate_pair
                     THEN Append(chars, surrogate_first) ELSE chars,
          len |-> i + 1]
  ELSE IF At(data, i) >= 128
    THEN IF (At(data, i) \div 32) % 2 = 1
           THEN IF Utf8Decode3(Slice(data, i, i + 3)).raised # "none"
                  THEN [raised |-> Utf8Decode3(Slice(data, i, i + 3)).raised]
                ELSE IF part_of_surrogate_pair
                  THEN Mutf8Loop(data, i + 3,
                         chars \o Utf16Pair(surrogate_first,
                                    Utf8Decode3(Slice(data, i, i + 3)).code_point),
                         FALSE, surrogate_first)
                ELSE IF NotPartOfPair(Utf8Decode3(Slice(data, i, i + 3)).code_point)
                  THEN Mutf8Loop(data, i + 3,
                         Append(chars,
                                Utf8Decode3(Slice(data, i, i + 3)).code_point),
                         FALSE, surrogate_first)
                ELSE Mutf8Loop(data, i + 3, chars, TRUE,
                               Utf8Decode3(Slice(data, i, i + 3)).code_point)
           ELSE IF Slice(data, i, i + 2) = <<192, 128>>
                  THEN Mutf8Loop(data, i + 2, Append(chars, 0),
                                 part_of_surrogate_pair, surrogate_first)
                ELSE IF Utf8Decode2(Slice(data, i, i + 2)).raised # "none"
                  THEN [raised |-> Utf8Decode2(Slice(data, i, i + 2)).raised]
                ELSE Mutf8Loop(data, i + 2,
                               chars \o Utf8Decode2(Slice(data, i, i + 2)).chars,
                               part_of_surrogate_pair, surrogate_first)
  ELSE Mutf8Loop(data, i + 1, Append(chars, At(data, i)),
                 part_of_surrogate_pair, surrogate_first)

parse_mutf8(data) == Mutf8Loop(data, 0, <<>>, FALSE, 0)

MaxUnits == 3       \* encoded units in an input

Mutf8Units ==
  { <<65>>, <<126>>,                                  \* A ~
    <<192, 128>>, <<194, 162>>, <<223, 191>>,         \* U+0000 U+00A2 U+07FF
    <<224, 160, 128>>, <<226, 130, 172>>,             \* U+0800 U+20AC
    <<237, 159, 191>>, <<238, 128, 128>>,             \* U+D7FF U+E000
    <<239, 191, 191>>,                                \* U+FFFF
    <<237, 160, 128>>, <<237, 174, 128>>,             \* U+D800 U+DB80 (high)
    <<237, 176, 128>> }                               \* U+DC00 (low)
RECURSIVE Mutf8Bodies(_)
Mutf8Bodies(n) ==
  IF n = 0 THEN {<<>>}
  ELSE Mutf8Bodies(n - 1)
       \cup {s \o u : s \in Mutf8Bodies(n - 1), u \in Mutf8Units}
\* null-terminated strings, alone or followed by other data, and a string
\* whose terminator is missing
Mutf8Inputs ==
  {s \o <<0>> : s \in Mutf8Bodies(MaxUnits)}
  \cup {s \o <<0, 65, 65>> : s \in Mutf8Bodies(1)}
  \cup {<<65>>}

ParseMutf8 == Call("parse_mutf8", parse_mutf8(f_arg))

Mutf8Next == ParseMutf8

Mutf8Init ==
  /\ f_name = "none"
  /\ f_arg \in Mutf8Inputs
  /\ f_res = [raised |-> "none"]

(***************************************************************************)
(* Calls of parse_with_format: every row of the instruction-format table   *)
(* over byte strings of the instruction's length.  f_arg is the pair of    *)
(* the format's id and the data.                                           *)
(***************************************************************************)
FormatIds == {"10x", "12x", "11n", "11x", "10t", "20t", "22x", "21t", "21s",
              "21h", "21c", "23x", "22b", "22t", "22s", "22c", "30t", "32x",
              "31i", "31t", "31c", "35c", "3rc", "45cc", "4rcc", "51l"}
\* the bytes k -> a + b * k, cut to zero after the first z bytes
ByteStarts == {0, 1, 24, 127, 200}
ByteSteps == {0, 1, 17, 37, 119}
ByteCuts == {4, 6, 10}
BytePatterns(n) ==
  {[k \in 1 .. n |-> IF k > z THEN 0 ELSE (a + b * k) % 256] :
     a \in ByteStarts, b \in ByteSteps, z \in ByteCuts}
FormatExamples ==
  {<<"51l", <<1, 24, 1, 2, 3, 4, 5, 6, 7, 8>>>>,
   <<"51l", <<1, 24, 1, 2, 3, 4, 0, 0, 0, 0>>>>,
   <<"31i", <<1, 20, 86, 120, 18, 52>>>>,
   <<"31i", <<1, 20, 86, 120, 146, 52>>>>,
   <<"35c", <<42, 110, 0, 7, 84, 50>>>>}
FormatInputs ==
  {<<id, d>> : id \in FormatIds, d \in BytePatterns(10)} \cup FormatExamples
FormatData(arg) == SubSeq(arg[2], 1, Min(Len(arg[2]), 2 * FormatLen(arg[1])))

ParseWithFormat ==
  Call("parse_with_format", parse_with_format(FormatData(f_arg), Format(f_arg[1])))
FormatNext == ParseWithFormat
FormatInit ==
  /\ f_name = "none"
  /\ f_arg \in FormatInputs
  /\ f_res = [raised |-> "none"]

(***************************************************************************)
(* Calls of format_args_with_syntax.  f_arg is the pair of args and syntax. *)
(***************************************************************************)
SyntaxWords ==
  {<<"v", "A">>,
   <<"v", "A", "A">>,
   <<"v", "B", "B", "B", "B">>,
   <<"#", "+", "B">>,
   <<"#", "+", "B", "B">>,
   <<"#", "+", "B", "B", "B", "B">>,
   <<"+", "A", "A">>,
   <<"+", "A", "A", "A", "A">>,
   <<"s", "t", "r", "i", "n", "g", "@", "B", "B", "B", "B">>,
   <<"f", "i", "e", "l", "d", "@", "C", "C", "C", "C">>,
   <<"h", "i", " ", "t", "h", "e", "r", "e">>,
   <<"h", "i", "B", "t", "h", "e", "r", "e">>,
   <<"n", "e", "g", "a", "t", "i", "v", "e", " ", "A", "A">>,
   <<"p", "o", "s", "i", "t", "i", "v", "e", " ", "v", "A", "A">>,
   <<"f", "i", "r", "s", "t", " ", "A", "A", "A", "A", " ", "t", "h", "e", "n", " ", "B", "B", "B", "B">>,
   <<"v", "A", ",", " ", "v", "B", ",", " ", "#", "+", "C", "C">>,
   <<"A">>,
   <<"A", "A">>,
   <<"A", "B", "B">>,
   <<"v", "A", "B">>,
   <<"{", "v", "C", ",", " ", "v", "A", "}", ",", " ", "m", "e", "t", "h", "@", "B", "B", "B", "B">>}
ArgValues == {0, 7, 8, 15, 127, 246, 255, 2457, 32768, 65535}
SyntaxInputs ==
  {<<("A" :> a) @@ ("B" :> b) @@ ("C" :> 5), w>> :
     a \in ArgValues, b \in ArgValues, w \in SyntaxWords}
  \cup {<<("B" :> 4), w>> : w \in SyntaxWords}

FormatArgsWithSyntax ==
  Call("format_args_with_syntax",
       IF FormatArgsRaises(f_arg[1], f_arg[2])
         THEN [raised |-> "KeyError"]
         ELSE [raised |-> "none",
               text |-> format_args_with_syntax(f_arg[1], f_arg[2])])
SyntaxNext == FormatArgsWithSyntax
SyntaxInit ==
  /\ f_name = "none"
  /\ f_arg \in SyntaxInputs
  /\ f_res = [raised |-> "none"]

(***************************************************************************)
(* AccessFlagEnum and AccessFlag.__str__.  A flag value is the set of the  *)
(* positions of its 1 bits: val & FLAG is not zero when they have a bit in  *)
(* common, and val ^= FLAG is the symmetric difference.                    *)
(***************************************************************************)
ACC_PUBLIC == 1
ACC_PRIVATE == 2
ACC_PROTECTED == 4
ACC_STATIC == 8
ACC_FINAL == 16
ACC_SYNCHRONIZED == 32
ACC_VOLATILE == 64
ACC_TRANSIENT == 128
ACC_NATIVE == 256
ACC_INTERFACE == 512
ACC_ABSTRACT == 1024
ACC_STRICT == 2048
ACC_SYNTHETIC == 4096
ACC_ANNOTATION == 8192
ACC_ENUM == 16384
ACC_CONSTRUCTOR == 65536
ACC_DECLARED_SYNCHRONIZED == 131072
unused == 32768
\* the 1 bits of a member of the enum
FlagBitsOf(flag) == {b \in 0 .. 30 : (flag \div Pow2(b)) % 2 = 1}

NameOfSynchronizedSwapped(context) ==
  IF context = "class" THEN <<"s", "y", "n", "c", "h", "r", "o", "n", "i", "z", "e", "d">> ELSE <<"s", "u", "p", "e", "r">>
NameOfSynchronized(context) ==
  IF context = "class" THEN <<"s", "u", "p", "e", "r">> ELSE <<"s", "y", "n", "c", "h", "r", "o", "n", "i", "z", "e", "d">>
NameOfVolatile(context) ==
  IF context = "method" THEN <<"b", "r", "i", "d", "g", "e">> ELSE <<"v", "o", "l", "a", "t", "i", "l", "e">>
NameOfTransient(context) ==
  IF context = "method" THEN <<"v", "a", "r", "a", "r", "g", "s">> ELSE <<"t", "r", "a", "n", "s", "i", "e", "n", "t">>

\* the tests of __str__ in their order
FlagTests(context) ==
  <<[flag |-> ACC_PUBLIC, name |-> <<"p", "u", "b", "l", "i", "c">>],
    [flag |-> ACC_PRIVATE, name |-> <<"p", "r", "i", "v", "a", "t", "e">>],
    [flag |-> ACC_PROTECTED, name |-> <<"p", "r", "o", "t", "e", "c", "t", "e", "d">>],
    [flag |-> ACC_STATIC, name |-> <<"s", "t", "a", "t", "i", "c">>],
    [flag |-> ACC_FINAL, name |-> <<"f", "i", "n", "a", "l">>],
    [flag |-> ACC_SYNCHRONIZED, name |-> NameOfSynchronized(context)],
    [flag |-> ACC_VOLATILE, name |-> NameOfVolatile(context)],
    [flag |-> ACC_TRANSIENT, name |-> NameOfTransient(context)],
    [flag |-> ACC_NATIVE, name |-> <<"n", "a", "t", "i", "v", "e">>],
    [flag |-> ACC_INTERFACE, name |-> <<"i", "n", "t", "e", "r", "f", "a", "c", "e">>],
    [flag |-> ACC_ABSTRACT, name |-> <<"a", "b", "s", "t", "r", "a", "c", "t">>],
    [flag |-> ACC_STRICT, name |-> <<"s", "t", "r", "i", "c", "t", "f", "p">>],
    [flag |-> ACC_SYNTHETIC, name |-> <<"s", "y", "n", "t", "h", "e", "t", "i", "c">>],
    [flag |-> ACC_ANNOTATION, name |-> <<"a", "n", "n", "o", "t", "a", "t", "i", "o", "n">>],
    [flag |-> ACC_ENUM, name |-> <<"e", "n", "u", "m">>],
    [flag |-> ACC_CONSTRUCTOR, name |-> <<"c", "o", "n", "s", "t", "r", "u", "c", "t", "o", "r">>],
    [flag |-> ACC_DECLARED_SYNCHRONIZED, name |-> <<"d", "e", "c", "l", "a", "r", "e", "d", "_", "s", "y", "n", "c", "h", "r", "o", "n", "i", "z", "e", "d">>]>>

\* res and val after the first n tests
RECURSIVE FlagSteps(_, _, _)
FlagSteps(val, context, n) ==
  IF n = 0 THEN [res |-> <<>>, val |-> val]
  ELSE LET before == FlagSteps(val, context, n - 1)
           test == FlagTests(context)[n]
       IN  IF FlagBitsOf(test.flag) \cap before.val # {}
             THEN [res |-> Append(before.res, test.name),
                   val |-> Xor(before.val, FlagBitsOf(test.flag))]
             ELSE before

\* " ".join(res)
RECURSIVE JoinSpace(_)
JoinSpace(res) ==
  IF res = <<>> THEN <<>>
  ELSE IF Len(res) = 1 THEN res[1]
  ELSE res[1] \o <<" ">> \o JoinSpace(Tail(res))

\* str(AccessFlag(val, context)) for a context __init__ accepts
AccessFlagStr(val, context) ==
  LET after == FlagSteps(val, context, Len(FlagTests(context)))
  IN  IF after.val # {} THEN [raised |-> "ValueError"]
      ELSE IF Len(after.res) # 0
        THEN [raised |-> "none", text |-> JoinSpace(after.res) \o <<" ">>]
      ELSE [raised |-> "none", text |-> JoinSpace(after.res)]

\* Calls of str(AccessFlag(val, context)): f_arg is the pair of val and
\* context.  The values have at most MaxFlags bits, or are all named flags
\* with or without the unused bit.
MaxFlags == 3
FlagBits == (0 .. 18) \cup {31}
NamedFlags == (0 .. 14) \cup {16, 17}
FlagValues ==
  {s \in SUBSET FlagBits : Cardinality(s) <= MaxFlags}
    \cup {NamedFlags, NamedFlags \cup FlagBitsOf(unused)}
FlagInputs == {<<val, context>> : val \in FlagValues,
                                  context \in {"method", "field", "class"}}
StrAccessFlag == Call("AccessFlag.__str__", AccessFlagStr(f_arg[1], f_arg[2]))
FlagNext == StrAccessFlag
FlagInit ==
  /\ f_name = "none"
  /\ f_arg \in FlagInputs
  /\ f_res = [raised |-> "none"]

(***************************************************************************)
(* Readers of one container.  The host calls get_instruction_info and      *)
(* get_instruction_text (which calls disassemble) on one Smali             *)
(* architecture object from several threads.  A call tests self.df, loads  *)
(* it from the pickle file while it is None, and then runs; the steps of   *)
(* different readers interleave.                                           *)
(***************************************************************************)
otherThanRead ==
  <<ctorVars, methVars, handleVars, codeVars, disVars, callVars, pickleVars>>
Readers == {"r1", "r2"}
NoDf == [none |-> TRUE]
ReaderAtRest == [pc |-> "idle", fn |-> "none", data |-> <<>>, addr |-> 0,
                 res |-> [raised |-> "none"]]
\* pickle.dump(df, f) and pickle.load(f)
Pickled(df) == [pickled |-> df]
load_dexEmpty(pickle) == Df(PoolsOfSize(0), <<>>)
load_dex(pickle) == pickle.pickled

ReaderPayloadAddr == 8
ReaderContainers ==
  {Df(PoolsOfSize(n),
      ReaderPayloadAddr :> SmaliPackedSwitchPayload(12, 2, 5, <<3, 7>>)) :
     n \in {1, 2}}
ReaderData ==
  {<<14, 0>>, <<0, 1>>, <<26, 0, 1, 0>>, <<113, 16, 1, 0, 3, 0>>, <<40, 255>>}
ReaderAddrs == {0, ReaderPayloadAddr}

\* the host calls get_instruction_info or get_instruction_text
ReaderCall(r) ==
  /\ rd[r].pc = "idle"
  /\ \E fn \in {"get_instruction_info", "disassemble"},
        data \in ReaderData, addr \in ReaderAddrs :
       rd' = [rd EXCEPT ![r] = [pc |-> "called", fn |-> fn, data |-> data,
                                addr |-> addr, res |-> [raised |-> "none"]]]
  /\ UNCHANGED <<rd_pickle, rd_df, rd_insns>>
  /\ UNCHANGED otherThanRead

\* if self.df is None
ReaderCheck(r) ==
  /\ rd[r].pc = "called"
  /\ rd' = [rd EXCEPT ![r].pc = IF rd_df = NoDf THEN "loading" ELSE "run"]
  /\ UNCHANGED <<rd_pickle, rd_df, rd_insns>>
  /\ UNCHANGED otherThanRead

\* self.load_dex()
ReaderLoad(r) ==
  /\ rd[r].pc = "loading"
  /\ rd_df' = load_dex(rd_pickle)
  /\ rd' = [rd EXCEPT ![r].pc = "run"]
  /\ UNCHANGED <<rd_pickle, rd_insns>>
  /\ UNCHANGED otherThanRead

\* the body of get_instruction_info, or disassemble(self.df, data, addr),
\* which loads its instruction table at its first call
ReaderRun(r) ==
  /\ rd[r].pc = "run"
  /\ \E res \in {IF rd[r].fn = "get_instruction_info"
                   THEN get_instruction_info(rd_df, rd[r].data, rd[r].addr)
                   ELSE disassemble(rd_df, rd[r].data, rd[r].addr)} :
       rd' = [rd EXCEPT ![r].pc = "done", ![r].res = res]
  /\ rd_insns' = (rd_insns \/ rd[r].fn = "disassemble")
  /\ UNCHANGED <<rd_pickle, rd_df>>
  /\ UNCHANGED otherThanRead

\* the host takes the result
ReaderReturn(r) ==
  /\ rd[r].pc = "done"
  /\ rd' = [rd EXCEPT ![r] = ReaderAtRest]
  /\ UNCHANGED <<rd_pickle, rd_df, rd_insns>>
  /\ UNCHANGED otherThanRead

ReadNext ==
  \E r \in Readers :
    \/ ReaderCall(r)
    \/ ReaderCheck(r)
    \/ ReaderLoad(r)
    \/ ReaderRun(r)
    \/ ReaderReturn(r)
ReadInit ==
  /\ rd_pickle \in {Pickled(df) : df \in ReaderContainers}
  /\ rd_df = NoDf
  /\ rd_insns = FALSE
  /\ rd = [r \in Readers |-> ReaderAtRest]

(***************************************************************************)
(* Calls of get_instruction_info on branch instructions.  f_arg is the     *)
(* pair of the bytes as they lie in the file and the address.              *)
(***************************************************************************)
\* the bytes of a 1-, 2- and 4-byte field, least significant first
BranchBytes1 == {0, 1, 16, 127, 128, 200, 255}
BranchBytes2 == {<<0, 0>>, <<16, 0>>, <<255, 127>>, <<0, 128>>, <<254, 255>>,
                 <<52, 18>>}
BranchBytes4 == {<<0, 0, 0, 0>>, <<16, 0, 0, 0>>, <<120, 86, 52, 18>>,
                 <<254, 255, 255, 255>>, <<0, 0, 255, 255>>,
                 <<0, 128, 0, 0>>, <<255, 255, 0, 192>>, <<0, 0, 1, 0>>}
BranchInstructions ==
  {<<40, a>> : a \in BranchBytes1}                                \* goto
  \cup {<<41, 0>> \o a : a \in BranchBytes2}                      \* goto/16
  \cup {<<42, 0>> \o a : a \in BranchBytes4}                      \* goto/32
  \cup {<<38, r>> \o b : r \in {0, 7}, b \in BranchBytes4}  \* fill-array-data
  \cup {<<op, r>> \o c : op \in 50 .. 61, r \in {0, 33}, c \in BranchBytes2}
BranchAddrs == {0, 256, 4096}
BranchInputs == {<<d, a>> : d \in BranchInstructions, a \in BranchAddrs}

GetInstructionInfo ==
  \E r \in {get_instruction_info(Df(CodePools, <<>>), f_arg[1], f_arg[2])} :
    Call("get_instruction_info", r)
BranchNext == GetInstructionInfo
BranchInit ==
  /\ f_name = "none"
  /\ f_arg \in BranchInputs
  /\ f_res = [raised |-> "none"]

(***************************************************************************)
(* DexFile._parse_encoded_value and _parse_encoded_array.  A DexValue is   *)
(* [type_, value]; an integer of 2^31 and more, or a 64-bit one, is held   *)
(* as the LEB128 functions hold theirs; a float is held as its bytes.      *)
(***************************************************************************)
VALUE_BYTE == 0
VALUE_SHORT == 2
VALUE_CHAR == 3
VALUE_LONG == 6
VALUE_FLOAT == 16
VALUE_DOUBLE == 17
VALUE_ARRAY == 28
VALUE_ANNOTATION == 29
VALUE_NULL == 30
VALUE_BOOLEAN == 31
\* the members of ValueType
ValueType ==
  {VALUE_BYTE, VALUE_SHORT, VALUE_CHAR, VALUE_INT, VALUE_LONG, VALUE_FLOAT,
   VALUE_DOUBLE, VALUE_METHOD_TYPE, VALUE_METHOD_HANDLE, VALUE_STRING,
   VALUE_TYPE, VALUE_FIELD, VALUE_METHOD, VALUE_ENUM, VALUE_ARRAY,
   VALUE_ANNOTATION, VALUE_NULL, VALUE_BOOLEAN}
PyNone == [py |-> "None"]
DexValue(type_, value) == [type_ |-> type_, value |-> value]

\* bytes * n, empty when n is not positive
Times(byte, n) == [k \in 1 .. n |-> byte]
\* _sign_extend(data, size); data[0] raises IndexError on empty data
_sign_extend(data, size) ==
  Times(IF (data[1] \div 16) # 0 THEN 255 ELSE 0, size - Len(data)) \o data
\* _zero_extend and _zero_extend_right
_zero_extend(data, size) == data \o Times(0, size - Len(data))

\* struct.calcsize
StructSize(struct_type) ==
  CASE struct_type \in {"b"} -> 1
    [] struct_type \in {"h", "H"} -> 2
    [] struct_type \in {"i", "I", "f"} -> 4
    [] struct_type \in {"q", "d"} -> 8
\* the 1 bits of little-endian bytes
BytesBits(data) ==
  UNION {ShiftLeft(BitsOf(data[k]), 8 * (k - 1)) : k \in 1 .. Len(data)}
\* unpack("<" + struct_type, data)[0] for data of the right size
Unpack(struct_type, data) ==
  IF struct_type \in {"f", "d"} THEN [ieee |-> data]
  ELSE IF struct_type \in {"b", "h", "i"} THEN UnpackSignedLE(data)
  ELSE IF struct_type = "H" THEN UnpackLE(data)
  ELSE IF struct_type = "I"
    THEN IF data[4] < 128 THEN UnpackLE(data) ELSE NonNeg(BytesBits(data))
  ELSE IF 63 \in BytesBits(data)
    THEN [neg |-> TRUE, bits |-> (0 .. 63) \ BytesBits(data)]
  ELSE NonNeg(BytesBits(data))

\* _make_res; lookup is a list, or PyNone
_make_res(value_type, value_arg, struct_type, data, lookup) ==
  IF Len(data) # StructSize(struct_type) THEN [raised |-> "struct.error"]
  ELSE IF lookup # PyNone /\ lookup # <<>>
    THEN IF data[4] >= 128 \/ UnpackLE(data) >= Len(lookup)
           THEN [raised |-> "IndexError"]
           ELSE [raised |-> "none",
                 value |-> DexValue(value_type, lookup[UnpackLE(data) + 1]),
                 len |-> value_arg + 2]
  ELSE [raised |-> "none",
        value |-> DexValue(value_type, Unpack(struct_type, data)),
        len |-> value_arg + 2]

\* range(array_size) never ends before the data does when array_size is
\* 2^31 and more
ArraySize(size, data) ==
  IF size.bits \subseteq 0 .. 30 THEN SumBits(size.bits) ELSE Len(data) + 1

RECURSIVE _parse_encoded_value(_, _)
RECURSIVE ArrayLoop(_, _, _, _, _)
\* for num in range(array_size)
ArrayLoop(self, data, i, left, array) ==
  IF left = 0 THEN [raised |-> "none", value |-> array, len |-> i]
  ELSE LET r == _parse_encoded_value(self, SliceFrom(data, i))
       IN  IF r.raised # "none" THEN r
           ELSE ArrayLoop(self, data, i + r.len, left - 1,
                          Append(array, r.value))
_parse_encoded_array(self, data) ==
  LET size == parse_uleb128(Slice(data, 0, 5))
  IN  IF size.raised # "none" THEN [raised |-> size.raised]
      ELSE ArrayLoop(self, data, size.len, ArraySize(size.val, data), <<>>)

_parse_encoded_value(self, data) ==
  IF data = <<>> THEN [raised |-> "IndexError"]
  ELSE
    LET value_arg == data[1] \div 32
        value_type == data[1] % 32
        payload == Slice(data, 1, value_arg + 2)
        signed(struct_type) ==
          IF payload = <<>> THEN [raised |-> "IndexError"]
          ELSE _make_res(value_type, value_arg, struct_type,
                         _sign_extend(payload, StructSize(struct_type)),
                         PyNone)
        padded(struct_type, lookup) ==
          _make_res(value_type, value_arg, struct_type,
                    _zero_extend(payload, StructSize(struct_type)), lookup)
    IN  IF value_type \notin ValueType THEN [raised |-> "ValueError"]
        ELSE IF value_type = VALUE_BYTE
          THEN _make_res(value_type, value_arg, "b", Slice(data, 1, 2), PyNone)
        ELSE IF value_type = VALUE_SHORT THEN signed("h")
        ELSE IF value_type = VALUE_CHAR THEN padded("H", PyNone)
        ELSE IF value_type = VALUE_INT THEN signed("i")
        ELSE IF value_type = VALUE_LONG THEN signed("q")
        ELSE IF value_type = VALUE_FLOAT THEN padded("f", PyNone)
        ELSE IF value_type = VALUE_DOUBLE THEN padded("d", PyNone)
        ELSE IF value_type = VALUE_METHOD_TYPE THEN padded("I", self.proto_ids)
        ELSE IF value_type = VALUE_METHOD_HANDLE
          THEN padded("I", self.method_handles)
        ELSE IF value_type = VALUE_STRING THEN padded("I", self.strings)
        ELSE IF value_type = VALUE_TYPE THEN padded("I", self.type_ids)
        ELSE IF value_type = VALUE_FIELD THEN padded("I", self.field_ids)
        ELSE IF value_type = VALUE_METHOD THEN padded("I", self.method_ids)
        ELSE IF value_type = VALUE_ENUM THEN padded("I", self.field_ids)
        ELSE IF value_type = VALUE_ARRAY
          THEN LET a == _parse_encoded_array(self, SliceFrom(data, 1))
               IN  IF a.raised # "none" THEN a
                   ELSE [raised |-> "none",
                         value |-> DexValue(value_type, a.value),
                         len |-> a.len + 1]
        ELSE IF value_type = VALUE_NULL
          THEN [raised |-> "none", value |-> DexValue(value_type, PyNone),
                len |-> 1]
        ELSE IF value_type = VALUE_BOOLEAN
          THEN [raised |-> "none",
                value |-> DexValue(value_type, value_arg # 0), len |-> 1]
        ELSE [raised |-> "ValueError"]

\* Calls of _parse_encoded_value: f_arg is the pair of the container's pools
\* and the data.
ValuePoolsOfSize(n) ==
  [proto_ids |-> [i \in 1 .. n |-> <<"proto", i - 1>>],
   method_handles |-> [i \in 1 .. n |-> <<"handle", i - 1>>],
   strings |-> [i \in 1 .. n |-> <<"string", i - 1>>],
   type_ids |-> [i \in 1 .. n |-> <<"type", i - 1>>],
   field_ids |-> [i \in 1 .. n |-> <<"field", i - 1>>],
   method_ids |-> [i \in 1 .. n |-> <<"method", i - 1>>]]
MaxValuePool == 3
ValuePayloads ==
  {<<1, 0, 0, 0, 0, 0, 0, 0>>, <<5, 2, 3, 4, 5, 6, 7, 8>>,
   <<16, 128, 255, 255, 255, 255, 255, 255>>,
   <<255, 255, 255, 255, 255, 255, 255, 255>>,
   <<2, 127, 0, 128, 1, 0, 0, 128>>,
   <<0, 0, 0, 0, 0, 0, 0, 0>>}
ValueArrays ==
  {<<28, 0>>, <<28, 2, 0, 5, 30>>, <<28, 1, 28, 1, 31>>, <<28, 3, 30>>,
   <<28, 2, 4, 7, 29>>, <<28, 128>>, <<28, 1, 23, 1>>, <<60, 1, 63>>,
   <<28, 255, 255, 255, 255, 15, 30, 30>>}
ValueInputs ==
  {<<ValuePoolsOfSize(n), <<header>> \o Slice(payload, 0, have)>> :
     n \in {0, MaxValuePool}, header \in 0 .. 255, payload \in ValuePayloads,
     have \in {0, 1, 2, 4, 8}}
  \cup {<<ValuePoolsOfSize(MaxValuePool), data>> : data \in ValueArrays}

ParseEncodedValue ==
  \E r \in {_parse_encoded_value(f_arg[1], f_arg[2])} :
    Call("_parse_encoded_value", r)
ValueNext == ParseEncodedValue
ValueInit ==
  /\ f_name = "none"
  /\ f_arg \in ValueInputs
  /\ f_res = [raised |-> "none"]

(***************************************************************************)
(* DexFile.parse_code_items: the layout of the code_item section           *)
(***************************************************************************)
DexEncodedCatchHandler(size, handlers, catch_all_addr) ==
  [size |-> size, handlers |-> handlers, catch_all_addr |-> catch_all_addr]
DexTryItem(start_addr, insn_count, handler) ==
  [start_addr |-> start_addr, insn_count |-> insn_count, handler |-> handler]
DexCodeItem(registers_size, ins_size, outs_size, tries_size, debug_info, insns_size, insns_, _insns_off, tries) ==
  [registers_size |-> registers_size, ins_size |-> ins_size,
   outs_size |-> outs_size, tries_size |-> tries_size,
   debug_info |-> debug_info, insns_size |-> insns_size, insns |-> insns_,
   _insns_off |-> _insns_off, tries |-> tries]

\* the Python integer of a LEB128 result
LebInt(v) == IF v.neg THEN (0 - 1) - SumBits(v.bits) ELSE SumBits(v.bits)
Abs(n) == IF n < 0 THEN 0 - n ELSE n

\* disassemble_pseudoinstructions(data, addr): the whole loop
RECURSIVE PseudoLoop(_, _, _, _)
PseudoStep(data, addr, off, found, r) ==
  IF r.raised # "none"
    THEN [raised |-> r.raised, pseudoinstructions |-> found]
    ELSE PseudoLoop(data, addr, r.next,
                    IF r.found THEN ((addr + off) :> r.payload) @@ found
                    ELSE found)
PseudoLoop(data, addr, off, found) ==
  IF off >= Len(data) THEN [raised |-> "none", pseudoinstructions |-> found]
  ELSE CHOOSE res \in {PseudoStep(data, addr, off, found, r) :
                         r \in {ExtractAt(data, off)}} : TRUE
disassemble_pseudoinstructions(data, addr) == PseudoLoop(data, addr, 0, <<>>)

\* for num3 in range(abs(encoded_catch_handler_size)); t and a are what
\* parse_uleb128 returned for type_idx and for addr
RECURSIVE HandlerPairs(_, _, _, _, _)
HandlerPair(self, data, i, n, handlers, t, a) ==
  IF t.raised # "none" \/ a.raised # "none"
       \/ LebInt(t.val) >= Len(self.type_ids)
    THEN [raised |-> "IndexError", i |-> i, handlers |-> handlers]
    ELSE HandlerPairs(self, data, i + t.len + a.len, n - 1,
                      Append(handlers, << self.type_ids[LebInt(t.val) + 1],
                                          LebInt(a.val) >>))
HandlerPairs(self, data, i, n, handlers) ==
  IF n = 0 THEN [raised |-> "none", i |-> i, handlers |-> handlers]
  ELSE CHOOSE r \in
         {HandlerPair(self, data, i, n, handlers, t,
                      IF t.raised # "none" THEN t
                      ELSE parse_uleb128(Slice(data, i + t.len, i + t.len + 5))) :
            t \in {parse_uleb128(Slice(data, i, i + 5))}} : TRUE

\* for num2 in range(encoded_catch_handler_list_size): the handlers by
\* their offset from the start of the list; size is the
\* encoded_catch_handler_size read at i, p the pairs after it, c what
\* parse_uleb128 returned for catch_all_addr
RECURSIVE CatchHandlers(_, _, _, _, _, _)
CatchHandler(self, data, i, list_off, n, handler_list, size, p, c) ==
  IF p.raised # "none"
    THEN [raised |-> p.raised, i |-> i, handler_list |-> handler_list]
  ELSE IF size <= 0
    THEN IF c.raised # "none"
           THEN [raised |-> "IndexError", i |-> i,
                 handler_list |-> handler_list]
           ELSE CatchHandlers(
                  self, data, p.i + c.len, list_off, n - 1,
                  ((i - list_off) :>
                     DexEncodedCatchHandler(Abs(size), p.handlers,
                                            LebInt(c.val)))
                  @@ handler_list)
  ELSE CatchHandlers(
         self, data, p.i, list_off, n - 1,
         ((i - list_off) :> DexEncodedCatchHandler(size, p.handlers, 0 - 1))
         @@ handler_list)
CatchHandlerSized(self, data, i, list_off, n, handler_list, s) ==
  IF s.raised # "none"
    THEN [raised |-> "IndexError", i |-> i, handler_list |-> handler_list]
    ELSE CHOOSE r \in
           {CatchHandler(self, data, i, list_off, n, handler_list,
                         LebInt(s.val), p,
                         IF p.raised # "none" THEN p
                         ELSE parse_uleb128(Slice(data, p.i, p.i + 5))) :
              p \in {HandlerPairs(self, data, i + s.len, Abs(LebInt(s.val)),
                                  <<>>)}} : TRUE
CatchHandlers(self, data, i, list_off, n, handler_list) ==
  IF n = 0 THEN [raised |-> "none", i |-> i, handler_list |-> handler_list]
  ELSE CHOOSE r \in
         {CatchHandlerSized(self, data, i, list_off, n, handler_list, s) :
            s \in {parse_sleb128(Slice(data, i, i + 5))}} : TRUE

\* for num2 in range(code_item.tries_size)
RECURSIVE TriesLoop(_, _, _, _, _)
TriesLoop(data, tries_off, n, handler_list, tries) ==
  IF n = 0 THEN [raised |-> "none", tries |-> tries]
  ELSE IF Len(data) < tries_off + 8
    THEN [raised |-> "struct.error", tries |-> tries]
  ELSE IF UnpackLE(Slice(data, tries_off + 6, tries_off + 8))
            \notin DOMAIN handler_list
    THEN [raised |-> "KeyError", tries |-> tries]
  ELSE TriesLoop(
         data, tries_off + 8, n - 1, handler_list,
         Append(tries,
                DexTryItem(
                  UnpackLE(Slice(data, tries_off, tries_off + 4)),
                  UnpackLE(Slice(data, tries_off + 4, tries_off + 6)),
                  handler_list[UnpackLE(Slice(data, tries_off + 6,
                                              tries_off + 8))])))

\* i += (4 - (i + offset_to_section)) % 4
AlignPadNone(at) == 0
AlignPad(at) == (4 - at) % 4

\* the try items and handlers of a code item whose tries_size is not zero:
\* i is the offset after the code units and their padding, ls what
\* parse_uleb128 returned for the size of the handler list, h the handlers
TriesWith(data, i, tries_size, h) ==
  IF h.raised # "none" THEN [raised |-> h.raised, i |-> i, tries |-> <<>>]
  ELSE CHOOSE r \in
         {[raised |-> tr.raised, i |-> h.i, tries |-> tr.tries] :
            tr \in {TriesLoop(data, i, tries_size, h.handler_list, <<>>)}} :
         TRUE
TriesSized(self, data, i, tries_size, ls) ==
  IF ls.raised # "none" THEN [raised |-> "IndexError", i |-> i, tries |-> <<>>]
  ELSE CHOOSE r \in
         {TriesWith(data, i, tries_size, h) :
            h \in {CatchHandlers(self, data, i + tries_size * 8 + ls.len,
                                 i + tries_size * 8, LebInt(ls.val), <<>>)}} :
         TRUE
TriesAt(self, data, i, tries_size) ==
  CHOOSE r \in
    {TriesSized(self, data, i, tries_size, ls) :
       ls \in {parse_uleb128(Slice(data, i + tries_size * 8,
                                   i + tries_size * 8 + 5))}} : TRUE

\* One iteration of the loop over the items: the item read at offset i of
\* the section, the offset at which its data ends and the offset of the
\* next item.  t is what the tries gave, ps the payloads found in the item
CodeItemStored(i, offset_to_section, t, code_item, ps) ==
  [raised |-> ps.raised,
   stored |-> TRUE,
   code_item_off |-> offset_to_section + i,
   code_item |-> code_item,
   pseudoinstructions |-> ps.pseudoinstructions,
   end |-> t.i,
   next |-> t.i + AlignPad(t.i + offset_to_section)]
CodeItemWith(data, i, offset_to_section, insns_size_, tries_size, t) ==
  IF t.raised # "none" THEN [raised |-> t.raised, stored |-> FALSE]
  ELSE CHOOSE r \in
         {CodeItemStored(
            i, offset_to_section, t,
            DexCodeItem(UnpackLE(Slice(data, i, i + 2)),
                        UnpackLE(Slice(data, i + 2, i + 4)),
                        UnpackLE(Slice(data, i + 4, i + 6)),
                        tries_size,
                        UnpackLE(Slice(data, i + 8, i + 12)),
                        insns_size_, insns_, i + 16 + offset_to_section,
                        t.tries),
            disassemble_pseudoinstructions(insns_,
                                           offset_to_section + i + 16)) :
            insns_ \in {PackInsns(Slice(data, i + 16,
                                        i + 16 + 2 * insns_size_))}} : TRUE
CodeItemSized(self, data, i, offset_to_section, insns_size_, tries_size, after) ==
  IF Len(data) < i + 16 + 2 * insns_size_
    THEN [raised |-> "struct.error", stored |-> FALSE]
  ELSE IF tries_size # 0 /\ (after + offset_to_section) % 4 # 0
    THEN [raised |-> "AssertionError", stored |-> FALSE]
  ELSE CHOOSE r \in
         {CodeItemWith(data, i, offset_to_section, insns_size_, tries_size,
                       t) :
            t \in {IF tries_size = 0
                     THEN [raised |-> "none", i |-> after, tries |-> <<>>]
                     ELSE TriesAt(self, data, after, tries_size)}} : TRUE
CodeItemAt(self, data, i, offset_to_section) ==
  IF Len(data) < i + 16 THEN [raised |-> "struct.error", stored |-> FALSE]
  ELSE CHOOSE r \in
         {CodeItemSized(
            self, data, i, offset_to_section, n, k,
            i + 16 + 2 * n + 2 * (IF k = 0 THEN 0 ELSE n % 2)) :
            n \in {UnpackLE(Slice(data, i + 12, i + 16))},
            k \in {UnpackLE(Slice(data, i + 6, i + 8))}} : TRUE

\* for num in range(size).  reads is history: where every item was read
\* and where its data ended, as file offsets.
RECURSIVE CodeItemsLoop(_, _, _, _, _, _)
CodeItemsAfter(self, data, size, offset_to_section, done, r) ==
  IF ~r.stored THEN [done EXCEPT !.raised = r.raised]
  ELSE IF r.raised # "none"
    THEN [done EXCEPT
            !.raised = r.raised,
            !.code_items = (r.code_item_off :> r.code_item) @@ @]
  ELSE CodeItemsLoop(
         self, data, size - 1, offset_to_section, r.next,
         [raised |-> "none",
          code_items |-> (r.code_item_off :> r.code_item) @@ done.code_items,
          pseudoinstructions |->
            r.pseudoinstructions @@ done.pseudoinstructions,
          reads |-> Append(done.reads,
                           [at |-> r.code_item_off,
                            end |-> offset_to_section + r.end])])
CodeItemsLoop(self, data, size, offset_to_section, i, done) ==
  IF size = 0 THEN done
  ELSE CHOOSE res \in
         {CodeItemsAfter(self, data, size, offset_to_section, done, r) :
            r \in {CodeItemAt(self, data, i, offset_to_section)}} : TRUE

parse_code_items(self, data, size, offset_to_section) ==
  CodeItemsLoop(self, data, size, offset_to_section, 0,
                [raised |-> "none", code_items |-> <<>>,
                 pseudoinstructions |-> <<>>, reads |-> <<>>])

\* ---- the code_item sections of the inputs ----
MaxCodeItems == 2     \* code items in a section
MaxInsnsSize == 2     \* code units in an item
MaxTries == 1         \* try items in an item

\* encoded_catch_handler_lists of 4, 3, 5 and 6 bytes: one typed handler;
\* a catch-all only; one typed handler and a catch-all (size -1); a typed
\* handler and a catch-all handler
HandlerLists ==
  {<<1, 1, 0, 0>>, <<1, 0, 5>>, <<1, 127, 0, 0, 5>>, <<2, 1, 0, 0, 0, 3>>}

Ushort(n) == <<n % 256, n \div 256>>
Uint(n) == <<n % 256, (n \div 256) % 256, 0, 0>>

\* an item as the file holds it: header, code units (return-void, then
\* nops), the padding before the tries, the try items (all naming the
\* handler at offset 1 of the list) and the handler list
ItemShapes ==
  {[insns_size |-> n, tries_size |-> 0, handlers |-> <<>>] :
     n \in 0 .. MaxInsnsSize}
  \cup {[insns_size |-> n, tries_size |-> k, handlers |-> h] :
          n \in 0 .. MaxInsnsSize, k \in 1 .. MaxTries, h \in HandlerLists}
CodeItemBytes(shape) ==
  Ushort(1) \o Ushort(0) \o Ushort(0) \o Ushort(shape.tries_size) \o Uint(0)
  \o Uint(shape.insns_size)
  \o [k \in 1 .. (2 * shape.insns_size) |-> IF k = 1 THEN 14 ELSE 0]
  \o (IF shape.tries_size # 0 /\ shape.insns_size % 2 = 1 THEN <<0, 0>>
      ELSE <<>>)
  \o [k \in 1 .. (8 * shape.tries_size) |->
        IF k % 8 = 5 \/ k % 8 = 7 THEN 1 ELSE 0]
  \o shape.handlers
RECURSIVE CodeSection(_)
CodeSection(shapes) ==
  IF shapes = <<>> THEN <<>>
  ELSE CodeItemBytes(Head(shapes))
       \o Times(0, (4 - (Len(CodeItemBytes(Head(shapes))) % 4)) % 4)
       \o CodeSection(Tail(shapes))

RECURSIVE ShapeSeqs(_)
ShapeSeqs(n) ==
  IF n = 0 THEN {<<>>}
  ELSE ShapeSeqs(n - 1)
       \cup {Append(s, x) : s \in {q \in ShapeSeqs(n - 1) : Len(q) = n - 1},
                            x \in ItemShapes}
SectionOffsets == {112, 260}
ItemsInputs ==
  {<<s, off>> : s \in ShapeSeqs(MaxCodeItems) \ {<<>>}, off \in SectionOffsets}

ParseCodeItems ==
  \E r \in {parse_code_items([type_ids |-> <<"LA;", "LB;">>],
                             CodeSection(f_arg[1]), Len(f_arg[1]), f_arg[2])} :
    Call("parse_code_items", r)

ItemsNext == ParseCodeItems
ItemsInit ==
  /\ f_name = "none"
  /\ f_arg \in ItemsInputs
  /\ f_res = <<>>

(***************************************************************************)
(* The pickle file: DexParser.run starts JsonWriter, which writes          *)
(* /tmp/out.json.pickle; Smali.load_dex polls for the file and loads it    *)
(***************************************************************************)
PickleChunks == 2    \* writes after which the file holds the whole pickle

otherThanPickle ==
  <<ctorVars, methVars, handleVars, codeVars, disVars, callVars, readVars>>

\* the file: absent, or holding the first written chunks of the pickle of a
\* container ("current": of the Dex being opened, "earlier": of a Dex
\* opened before)
NoFile == [exists |-> FALSE]
PickleFile(of, written) == [exists |-> TRUE, dex |-> of, written |-> written]

\* df = DexFile(self.bv.raw.read(...)): construction returns or raises
ParserConstruct ==
  /\ parser.pc = "construct"
  /\ \E ok \in BOOLEAN :
       parser' = [parser EXCEPT !.pc = IF ok THEN "finally" ELSE "except"]
  /\ UNCHANGED <<tmp_pickle, writer, loader, loaded>>
  /\ UNCHANGED otherThanPickle

\* except Exception: log_error(...); raise.  The finally block then runs
\* JsonWriter(df, "/tmp/out.json") with df unbound: UnboundLocalError, and
\* no writer is started
ParserExcept ==
  /\ parser.pc = "except"
  /\ parser' = [pc |-> "raised", raised |-> "UnboundLocalError"]
  /\ UNCHANGED <<tmp_pickle, writer, loader, loaded>>
  /\ UNCHANGED otherThanPickle

\* finally, after construction returned: background_task.start()
ParserStartWriter ==
  /\ parser.pc = "finally"
  /\ parser' = [parser EXCEPT !.pc = "process"]
  /\ writer' = "open"
  /\ UNCHANGED <<tmp_pickle, loader, loaded>>
  /\ UNCHANGED otherThanPickle

\* the segments, sections and functions are added and run returns
ParserProcess ==
  /\ parser.pc = "process"
  /\ parser' = [parser EXCEPT !.pc = "done"]
  /\ UNCHANGED <<tmp_pickle, writer, loader, loaded>>
  /\ UNCHANGED otherThanPickle

ParserNext ==
  \/ ParserConstruct
  \/ ParserExcept
  \/ ParserStartWriter
  \/ ParserProcess

\* open(self.fn + ".pickle", "bw"): the file is created or truncated
WriterOpen ==
  /\ writer = "open"
  /\ tmp_pickle' = PickleFile("current", 0)
  /\ writer' = "dump"
  /\ UNCHANGED <<parser, loader, loaded>>
  /\ UNCHANGED otherThanPickle

\* pickle.dump(self.obj, fb): the file grows; the last write and the close
\* leave the whole pickle
WriterDump ==
  /\ writer = "dump"
  /\ tmp_pickle' = [tmp_pickle EXCEPT !.written = @ + 1]
  /\ writer' = IF tmp_pickle.written + 1 = PickleChunks THEN "json" ELSE "dump"
  /\ UNCHANGED <<parser, loader, loaded>>
  /\ UNCHANGED otherThanPickle

\* json.dump(...) into /tmp/out.json
WriterJson ==
  /\ writer = "json"
  /\ writer' = "done"
  /\ UNCHANGED <<tmp_pickle, parser, loader, loaded>>
  /\ UNCHANGED otherThanPickle

WriterNext ==
  \/ WriterOpen
  \/ WriterDump
  \/ WriterJson

\* get_instruction_info / get_instruction_text find self.df is None and call
\* load_dex
LoaderCall ==
  /\ loader.pc \in {"idle", "raised"}
  /\ loader' = [loader EXCEPT !.pc = "open", !.raised = "none"]
  /\ UNCHANGED <<tmp_pickle, parser, writer, loaded>>
  /\ UNCHANGED otherThanPickle

\* open("/tmp/out.json.pickle", "br"): FileNotFoundError is caught
LoaderOpen ==
  /\ loader.pc = "open"
  /\ loader' = [loader EXCEPT
                  !.pc = IF tmp_pickle.exists THEN "load" ELSE "sleep"]
  /\ UNCHANGED <<tmp_pickle, parser, writer, loaded>>
  /\ UNCHANGED otherThanPickle

\* log_debug(...); time.sleep(1); the loop starts over
LoaderSleep ==
  /\ loader.pc = "sleep"
  /\ loader' = [loader EXCEPT !.pc = "open"]
  /\ UNCHANGED <<tmp_pickle, parser, writer, loaded>>
  /\ UNCHANGED otherThanPickle

\* what pickle.load makes of the file: the container, or the exception of
\* an empty or a truncated pickle
PickleLoad(f) ==
  IF f.written = PickleChunks THEN [raised |-> "none", df |-> f.dex]
  ELSE IF f.written = 0 THEN [raised |-> "EOFError", df |-> "None"]
  ELSE [raised |-> "UnpicklingError", df |-> "None"]

\* self.df = pickle.load(f); break.  Other exceptions than
\* FileNotFoundError leave load_dex
LoaderLoad ==
  /\ loader.pc = "load"
  /\ loaded' = loaded \cup {tmp_pickle}
  /\ loader' = IF PickleLoad(tmp_pickle).raised = "none"
                 THEN [pc |-> "returned", df |-> PickleLoad(tmp_pickle).df,
                       raised |-> "none"]
                 ELSE [pc |-> "raised", df |-> "None",
                       raised |-> PickleLoad(tmp_pickle).raised]
  /\ UNCHANGED <<tmp_pickle, parser, writer>>
  /\ UNCHANGED otherThanPickle

\* the steps of a call of load_dex
LoaderRun ==
  \/ LoaderOpen
  \/ LoaderSleep
  \/ LoaderLoad

PickleNext ==
  \/ ParserNext
  \/ WriterNext
  \/ LoaderCall
  \/ LoaderRun

\* the file is absent, or was left by an earlier parse
PickleInit ==
  /\ tmp_pickle \in {NoFile, PickleFile("earlier", PickleChunks)}
  /\ parser = [pc |-> "construct", raised |-> "none"]
  /\ writer = "idle"
  /\ loader = [pc |-> "idle", df |-> "None", raised |-> "none"]
  /\ loaded = {}

PickleIdle ==
  /\ tmp_pickle = NoFile
  /\ parser = [pc |-> "construct", raised |-> "none"]
  /\ writer = "idle"
  /\ loader = [pc |-> "idle", df |-> "None", raised |-> "none"]
  /\ loaded = {}

(***************************************************************************)
(* Values of the variables of the parts a specification does not run       *)
(***************************************************************************)
MethIdle ==
  /\ em_count = 0
  /\ method_ids = <<>>
  /\ method_idx = 0
  /\ em_first = <<>>
  /\ em_warned = {}
  /\ em_last = [m |-> 0, code_off |-> 0]
  /\ em_raised = "idle"

HandleIdle ==
  /\ mh_input = <<>>
  /\ method_handles = <<>>
  /\ mh_raised = "idle"

CodeIdle ==
  /\ file = <<>>
  /\ insns_off = 0
  /\ insns = <<>>
  /\ code_offset = 0
  /\ pseudoinstructions = <<>>
  /\ code_pc = "idle"
  /\ code_raised = "none"
  /\ visited = {}
  /\ resumed = {}
  /\ unknown_seen = {}
  /\ dropped = 0
  /\ ii_off = 0
  /\ ii_sum = 0
  /\ ii_last = [called |-> FALSE]
  /\ ii_state = "idle"
  /\ dis_off = 0
  /\ dis_last = [called |-> FALSE]
  /\ dis_state = "idle"

DisIdle ==
  /\ d_data = <<>>
  /\ d_df = PoolsOfSize(0)
  /\ d_res = [called |-> FALSE]

CallIdle ==
  /\ f_name = "none"
  /\ f_arg = <<>>
  /\ f_res = [raised |-> "none"]

ReadIdle ==
  /\ rd_pickle = Pickled(Df(PoolsOfSize(0), <<>>))
  /\ rd_df = NoDf
  /\ rd_insns = FALSE
  /\ rd = [r \in Readers |-> ReaderAtRest]

(***************************************************************************)
(* Specifications                                                          *)
(***************************************************************************)
\* the state of every part but the single calls, at rest
AllIdle ==
  CtorIdle /\ MethIdle /\ HandleIdle /\ CodeIdle /\ DisIdle /\ ReadIdle
  /\ PickleIdle

InitCtor ==
  CtorInit /\ MethIdle /\ HandleIdle /\ CodeIdle /\ DisIdle /\ CallIdle
  /\ ReadIdle /\ PickleIdle
SpecCtor == InitCtor /\ [][CtorNext]_vars

InitMethods ==
  CtorIdle /\ MethInit /\ HandleIdle /\ CodeIdle /\ DisIdle /\ CallIdle
  /\ ReadIdle /\ PickleIdle
SpecMethods == InitMethods /\ [][MethNext]_vars

InitHandles ==
  CtorIdle /\ MethIdle /\ HandlesInit /\ CodeIdle /\ DisIdle /\ CallIdle
  /\ ReadIdle /\ PickleIdle
SpecHandles == InitHandles /\ [][HandlesNext]_vars

InitCode ==
  CtorIdle /\ MethIdle /\ HandleIdle /\ CodeInit /\ DisIdle /\ CallIdle
  /\ ReadIdle /\ PickleIdle
SpecCode == InitCode /\ [][CodeNext]_vars
\* parse_code_items runs in one thread: once the stream is read the loop of
\* the extractor keeps running until it ends or raises
SpecCodeFair ==
  /\ SpecCode
  /\ WF_vars(ReadCodeItem)
  /\ WF_vars(ExtractStep)
  /\ WF_vars(ExtractDone)

InitLeb == AllIdle /\ LebInit
SpecLeb == InitLeb /\ [][LebNext]_vars

InitMutf8 == AllIdle /\ Mutf8Init
SpecMutf8 == InitMutf8 /\ [][Mutf8Next]_vars

InitFormat == AllIdle /\ FormatInit
SpecFormat == InitFormat /\ [][FormatNext]_vars

InitSyntax == AllIdle /\ SyntaxInit
SpecSyntax == InitSyntax /\ [][SyntaxNext]_vars

InitFlags == AllIdle /\ FlagInit
SpecFlags == InitFlags /\ [][FlagNext]_vars

InitValue == AllIdle /\ ValueInit
InitPickle ==
  CtorIdle /\ MethIdle /\ HandleIdle /\ CodeIdle /\ DisIdle /\ CallIdle
  /\ ReadIdle /\ PickleInit
SpecPickle == InitPickle /\ [][PickleNext]_vars
\* the parser, the writer and the caller of load_dex are threads of their
\* own, each of which keeps running
SpecPickleFair ==
  /\ SpecPickle
  /\ WF_vars(ParserNext)
  /\ WF_vars(WriterNext)
  /\ WF_vars(LoaderRun)
InitItems == AllIdle /\ ItemsInit
SpecItems == InitItems /\ [][ItemsNext]_vars
SpecValue == InitValue /\ [][ValueNext]_vars

InitBranch == AllIdle /\ BranchInit
SpecBranch == InitBranch /\ [][BranchNext]_vars

InitReaders ==
  CtorIdle /\ MethIdle /\ HandleIdle /\ CodeIdle /\ DisIdle /\ CallIdle
  /\ ReadInit /\ PickleIdle
SpecReaders == InitReaders /\ [][ReadNext]_vars

InitDis ==
  CtorIdle /\ MethIdle /\ HandleIdle /\ CodeIdle /\ DisInit /\ CallIdle
  /\ ReadIdle /\ PickleIdle
SpecDis == InitDis /\ [][DisNext]_vars

(***************************************************************************)
(* Claims                                                                  *)
(***************************************************************************)

\* C1: during construction no section decoder dereferences a pool that has
\* not been populated yet or has already been dropped; in particular every
\* pool an encoded_value can reference exists when encoded arrays are
\* decoded.
C1_PoolsExistWhenDereferenced == missing = {}

\* C2: on an otherwise well-formed file, a missing optional section
\* (field_id, type_list, call_site_id, method_handle, an annotation section,
\* debug_info) leaves a warning and construction completes; a missing
\* required section (string_id, type_id, proto_id, method_id, class_def,
\* class_data, code_item) aborts construction with an error.
C2Optional ==
  { TYPE_FIELD_ID_ITEM, TYPE_TYPE_LIST, TYPE_CALL_SITE_ID_ITEM,
    TYPE_METHOD_HANDLE_ITEM, TYPE_ANNOTATION_ITEM,
    TYPE_ANNOTATIONS_DIRECTORY_ITEM, TYPE_ANNOTATION_SET_ITEM,
    TYPE_ANNOTATION_SET_REF_LIST, TYPE_DEBUG_INFO_ITEM }
C2Required ==
  { TYPE_STRING_ID_ITEM, TYPE_TYPE_ID_ITEM, TYPE_PROTO_ID_ITEM,
    TYPE_METHOD_ID_ITEM, TYPE_CLASS_DEF_ITEM, TYPE_CLASS_DATA_ITEM,
    TYPE_CODE_ITEM }
C2_MissingSectionPolicy ==
  (ctor_pc \in {"done", "raised"} /\ dex.tag = LittleEndianTag) =>
    /\ (C2Required \ dex.sections # {}) => (ctor_pc = "raised" /\ raised # "none")
    /\ (/\ RequiredSections \subseteq dex.sections
        /\ C2Optional \ dex.sections # {}
        /\ MapType \ dex.sections \subseteq C2Optional)
         => (/\ ctor_pc = "done"
             /\ raised = "none"
             /\ \E l \in log : l.level = "warn")

\* C3: once a method_id's instruction-stream offset has been set it never
\* changes; an encoded_method naming the same method with a different code
\* offset only produces a warning, and the first binding stays visible.
C3_FirstBindingKept ==
  /\ [][\A m \in DOMAIN method_ids :
          method_ids[m] # None => method_ids'[m] = method_ids[m]]_vars
  /\ [](\A m \in DOMAIN method_ids :
          em_first[m] # None => method_ids[m] = em_first[m])
  /\ []((em_last.m # 0 /\ em_last.code_off + 16 # em_first[em_last.m])
          => em_last.m \in em_warned)

\* C3 witness: a method was named by two entries with different code
\* offsets, and still carries the first one.
C3_Witness ==
  \E m \in DOMAIN method_ids :
    /\ m \in em_warned
    /\ em_last.m = m
    /\ em_last.code_off + 16 # em_first[m]
    /\ method_ids[m] = em_first[m]


\* C4: for a parsed code item, walking the stream from its offset with
\* get_instruction_info and advancing by each returned length, the lengths
\* sum to exactly 2 * insns_size, whatever the size of the payloads in it.
C4_LengthsSumToStream ==
  (ii_state = "done" /\ dropped = 0) => ii_sum = 2 * (Len(insns) \div 2)

\* The bytes are fewer than the instruction starting at bytes[0] requires.
ShortRead(data) ==
  \/ Len(data) < 2
  \/ /\ ~(data[1] = 0 /\ data[2] # 0)
     /\ Len(data) < 2 * InsnLen(data[1])

\* C5: when disassemble is given fewer bytes than the instruction at
\* bytes[0] requires (fewer than 2, or fewer than 2 * insn_len, of even or
\* odd length), it returns no tokens and 0 bytes consumed and does not raise.
C5_ShortReadReturnsNothing ==
  (d_res.called /\ ShortRead(d_data)) =>
    /\ d_res.raised = "none"
    /\ d_res.tokens = <<>>
    /\ d_res.length = 0

\* The pool operand of the instruction at the head of data, if it has one:
\* its kind, the letter of its index in the syntax and the pool it names.
OperandAt(op) ==
  LET sx == Syntax(op)
      i == CHOOSE j \in KindMatches(sx) : \A k \in KindMatches(sx) : j <= k
  IN  i + 1 + LowerRun(sx, i + 1)
PoolKinds ==
  {<<"f", "i", "e", "l", "d">>, <<"m", "e", "t", "h">>,
   <<"s", "t", "r", "i", "n", "g">>, <<"t", "y", "p", "e">>}
PoolOfKind(df, kind) ==
  IF kind = <<"f", "i", "e", "l", "d">> THEN df.field_ids
  ELSE IF kind = <<"m", "e", "t", "h">> THEN df.method_ids
  ELSE IF kind = <<"s", "t", "r", "i", "n", "g">> THEN df.strings
  ELSE df.type_ids
HasPoolOperand(data) ==
  /\ Len(data) >= 2
  /\ ~(data[1] = 0 /\ data[2] # 0)
  /\ Len(data) >= 2 * InsnLen(data[1])
  /\ KindMatches(Syntax(data[1])) # {}
  /\ Kind(Syntax(data[1])) \in PoolKinds
OperandIndex(data) ==
  parse_with_format(endian_swap_shorts(Slice(data, 0, 2 * InsnLen(data[1]))),
                    Format(FormatId(data[1])))
    .values[Syntax(data[1])[OperandAt(data[1]) + 1]]
OperandOutOfRange(df, data) ==
  /\ HasPoolOperand(data)
  /\ OperandIndex(data) >= Len(PoolOfKind(df, Kind(Syntax(data[1]))))

\* C6: when disassemble renders a field@, meth@, string@ or type@ operand
\* whose index is not smaller than the size of the pool, it emits the raw
\* kind@NNNN text token with a warning, still returns the instruction's
\* tokens and length, and does not raise.
C6_OutOfRangeOperandRendered ==
  (d_res.called /\ OperandOutOfRange(d_df, d_data)) =>
    /\ d_res.raised = "none"
    /\ d_res.length = 2 * InsnLen(d_data[1])
    /\ \E i \in 1 .. Len(d_res.tokens) :
         /\ d_res.tokens[i].type = "TextToken"
         /\ d_res.tokens[i].text =
              Kind(Syntax(d_data[1])) \o <<"@">> \o FormatX(OperandIndex(d_data))
    /\ \E i \in 1 .. Len(d_res.logs) : d_res.logs[i] = "warn"

\* C7: a code unit 0x00 0xNN with NN > 3 is treated as an unknown
\* pseudo-instruction by the extractor, by disassemble and by
\* get_instruction_info alike: each logs, advances or reports exactly 2
\* bytes, and does not raise.
C7_UnknownPseudoSkipped ==
  /\ \A u \in unknown_seen : u[2] = u[1] + 2 /\ u[3] # <<>>
  /\ (ii_last.called /\ IsUnknownPseudo(ii_last.head)) =>
       /\ ii_last.raised = "none"
       /\ ii_last.length = 2
       /\ ii_last.logs # <<>>
  /\ (dis_last.called /\ IsUnknownPseudo(dis_last.head)) =>
       /\ dis_last.raised = "none"
       /\ dis_last.length = 2
       /\ dis_last.logs # <<>>

\* The size and element width a payload declares in the file.
DeclaredAt(addr) ==
  LET off == addr - insns_off
      type == file[off + 2]
  IN  IF type = 3
        THEN [element_width |-> UnpackLE(Slice(file, off + 2, off + 4)),
              size |-> UnpackLE(Slice(file, off + 4, off + 8))]
        ELSE [element_width |-> 0,
              size |-> UnpackLE(Slice(file, off + 2, off + 4))]

\* C8: every recorded payload of declared size s has the documented total
\* size and element counts (packed-switch 4s + 8 and s targets,
\* sparse-switch 8s + 4 and s keys and s targets, fill-array-data of width w
\* ((w * s + 1) div 2) * 2 + 8); the extractor resumes exactly _total_size
\* bytes after the payload's first unit, and disassemble reports the same
\* byte count for the payload.
C8_PayloadSizes ==
  /\ \A addr \in DOMAIN pseudoinstructions :
       LET ps == pseudoinstructions[addr]
           s == DeclaredAt(addr).size
           w == DeclaredAt(addr).element_width
       IN  /\ ps.size = s
           /\ ps.kind = "packed-switch" =>
                ps._total_size = 4 * s + 8 /\ Len(ps.targets) = s
           /\ ps.kind = "sparse-switch" =>
                /\ ps._total_size = 8 * s + 4
                /\ Len(ps.keys) = s
                /\ Len(ps.targets) = s
           /\ ps.kind = "fill-array-data" =>
                /\ ps.element_width = w
                /\ ps._total_size = ((w * s + 1) \div 2) * 2 + 8
  /\ \A r \in resumed : r[2] = r[1] + pseudoinstructions[r[1]]._total_size
  /\ (dis_last.called /\ dis_last.addr \in DOMAIN pseudoinstructions) =>
       /\ dis_last.raised = "none"
       /\ dis_last.length = pseudoinstructions[dis_last.addr]._total_size
       /\ dis_off = dis_last.addr - insns_off + dis_last.length

\* a stream with a fill-array-data and a 25-entry sparse-switch, both
\* recorded, the walk of disassemble standing right after the sparse-switch
C8_Witness ==
  /\ \E addr \in DOMAIN pseudoinstructions :
       pseudoinstructions[addr].kind = "fill-array-data"
  /\ \E addr \in DOMAIN pseudoinstructions :
       /\ pseudoinstructions[addr].kind = "sparse-switch"
       /\ pseudoinstructions[addr].size = 25
       /\ \E r \in resumed : r[1] = addr
       /\ dis_last.called
       /\ dis_last.addr = addr
       /\ dis_last.length = 204

\* C9: the data blob stored for a fill-array-data payload of width w and
\* size s is exactly ((w * s + 1) div 2) * 2 bytes long, i.e.
\* _total_size - 8, and holds only bytes of that payload.
C9_FillArrayDataBlob ==
  \A addr \in DOMAIN pseudoinstructions :
    LET ps == pseudoinstructions[addr]
        off == addr - insns_off
        n == ((ps.element_width * ps.size + 1) \div 2) * 2
    IN  ps.kind = "fill-array-data" =>
          /\ Len(ps.data) = n
          /\ n = ps._total_size - 8
          /\ ps.data = Slice(file, off + 8, off + 8 + n)


\* C11: construction selects LittleEndian when bytes 40..44 are 78 56 34 12
\* and BigEndian when they are 12 34 56 78; for any other value, or a shorter
\* header, it fails with an error before any section is read.
C11_EndianTag ==
  ctor_pc \notin {"idle", "header"} =>
    /\ dex.tag = <<120, 86, 52, 18>> => endianness = "LittleEndian"
    /\ dex.tag = <<18, 52, 86, 120>> => endianness = "BigEndian"
    /\ dex.tag \notin {<<120, 86, 52, 18>>, <<18, 52, 86, 120>>} =>
         /\ ctor_pc = "raised"
         /\ raised = "ValueError"
         /\ endianness = "unset"
         /\ map_list = {}
         /\ attrs = {}
         /\ missing = {}

\* a header cut short after two bytes of the tag has been rejected
C11_Witness ==
  /\ dex.tag = <<120, 86>>
  /\ ctor_pc = "raised"
  /\ raised = "ValueError"

\* A LEB128 sequence: the continuation bit is set on every byte but the last.
IsLeb(data) ==
  /\ data # <<>>
  /\ \A k \in 1 .. Len(data) : (data[k] >= 128) <=> (k < Len(data))
IntOf(v) == IF v.neg THEN -1 - SumBits(v.bits) ELSE SumBits(v.bits)

\* C12: on a LEB128 sequence of n bytes parse_sleb128 consumes n bytes and
\* returns u when bit 6 of the last byte is clear and u - 2^(7n) when it is
\* set, u being what parse_uleb128 returns; 80 80 80 80 78 gives -0x80000000,
\* ff ff ff ff 07 gives 0x7FFFFFFF and ff ff ff ff 0f gives 0xFFFFFFFF.
C12_SignedFromUnsigned ==
  (f_name = "parse_sleb128" /\ IsLeb(f_arg)) =>
    LET n == Len(f_arg)
        u == parse_uleb128(f_arg).val
        clear == (f_arg[n] \div 64) % 2 = 0
    IN  /\ f_res.raised = "none"
        /\ f_res.len = n
        /\ ~u.neg
        \* u - 2^(7n) is negative and -1 - (u - 2^(7n)) = 2^(7n) - 1 - u
        /\ f_res.val = IF clear THEN u
                       ELSE [neg |-> TRUE, bits |-> (0 .. (7 * n - 1)) \ u.bits]
        /\ n <= 4 => IntOf(f_res.val) = IF clear THEN IntOf(u)
                                        ELSE IntOf(u) - Pow2(7 * n)
        /\ f_arg = <<128, 128, 128, 128, 120>> =>
             f_res.val = [neg |-> TRUE, bits |-> 0 .. 30]
        /\ f_arg = <<255, 255, 255, 255, 7>> =>
             f_res.val = [neg |-> FALSE, bits |-> 0 .. 30]
        /\ f_arg = <<255, 255, 255, 255, 15>> =>
             f_res.val = [neg |-> FALSE, bits |-> 0 .. 31]

\* 80 80 80 80 78 has been parsed as -0x80000000 in five bytes
C12_Witness ==
  /\ f_name = "parse_sleb128"
  /\ f_arg = <<128, 128, 128, 128, 120>>
  /\ f_res = [raised |-> "none", val |-> [neg |-> TRUE, bits |-> 0 .. 30],
              len |-> 5]

\* C13: parse_uleb128, parse_uleb128p1 and parse_sleb128 never consume more
\* than 5 bytes; an input whose first five bytes all have the continuation
\* bit set yields an error, not a value.
C13_AtMostFiveBytes ==
  f_name \in {"parse_sleb128", "parse_uleb128", "parse_uleb128p1"} =>
    /\ f_res.raised = "none" => f_res.len <= 5
    /\ (Len(f_arg) >= 5 /\ \A k \in 1 .. 5 : f_arg[k] >= 128) =>
         f_res.raised # "none"

\* The MUTF-8 encoding of a code point and of a text: U+0000 as C0 80, one,
\* two or three bytes up to U+FFFF, surrogate halves included, and a
\* supplementary code point as its two surrogate halves.
EncodeMutf8Char(c) ==
  IF c = 0 THEN <<192, 128>>
  ELSE IF c < 128 THEN <<c>>
  ELSE IF c < 2048 THEN <<192 + (c \div 64), 128 + (c % 64)>>
  ELSE IF c < 65536
    THEN <<224 + (c \div 4096), 128 + ((c \div 64) % 64), 128 + (c % 64)>>
  ELSE LET hi == 55296 + ((c - 65536) \div 1024)
           lo == 56320 + ((c - 65536) % 1024)
       IN  <<224 + (hi \div 4096), 128 + ((hi \div 64) % 64), 128 + (hi % 64),
             224 + (lo \div 4096), 128 + ((lo \div 64) % 64), 128 + (lo % 64)>>
EncodeMutf8(text) == Concat([k \in 1 .. Len(text) |-> EncodeMutf8Char(text[k])])
Terminated(data) == \E k \in 1 .. Len(data) : data[k] = 0

\* C14: for a null-terminated input of 1-byte, 2-byte (C0 80 included) and
\* 3-byte units (surrogate halves included), re-encoding the text parse_mutf8
\* returns as MUTF-8 and appending the terminator gives back exactly the
\* bytes it consumed.
C14_Mutf8RoundTrip ==
  (f_name = "parse_mutf8" /\ Terminated(f_arg)) =>
    /\ f_res.raised = "none"
    /\ EncodeMutf8(f_res.text) \o <<0>> = SubSeq(f_arg, 1, f_res.len)

\* The encoded unit at offset i: its length and its code point.
UnitLen(data, i) ==
  IF At(data, i) < 128 THEN 1
  ELSE IF (At(data, i) \div 32) % 2 = 0 THEN 2 ELSE 3
UnitCodePoint(data, i) ==
  IF UnitLen(data, i) = 1 THEN At(data, i)
  ELSE IF UnitLen(data, i) = 2
    THEN ((At(data, i) % 32) * 64) + (At(data, i + 1) % 64)
  ELSE ((At(data, i) % 16) * 4096) + ((At(data, i + 1) % 64) * 64)
       + (At(data, i + 2) % 64)
\* The characters of the units in input order: a high surrogate directly
\* followed by a low surrogate is one supplementary code point, every other
\* unit is its own code point.
RECURSIVE TextInOrder(_, _)
TextInOrder(data, i) ==
  IF At(data, i) = 0 THEN <<>>
  ELSE LET c == UnitCodePoint(data, i)
           j == i + UnitLen(data, i)
       IN  IF /\ c \in 55296 .. 56319
              /\ At(data, j) # 0
              /\ UnitCodePoint(data, j) \in 56320 .. 57343
             THEN <<65536 + ((c - 55296) * 1024) + (UnitCodePoint(data, j) - 56320)>>
                  \o TextInOrder(data, j + 3)
             ELSE <<c>> \o TextInOrder(data, j)

\* C15: parse_mutf8 emits the characters in the order of their encoded
\* units; a 3-byte high surrogate directly followed by a 3-byte low
\* surrogate becomes one supplementary code point, and a surrogate half not
\* directly followed by its partner is emitted unchanged at its own position.
C15_Mutf8InOrder ==
  (f_name = "parse_mutf8" /\ Terminated(f_arg)) =>
    /\ f_res.raised = "none"
    /\ f_res.text = TextInOrder(f_arg, 0)

\* The fields of a format: without the lo and hi marks every character but
\* the separators stands for one nibble, so a field's position is the number
\* of such characters before its first letter and its width the number of
\* its letters.
FieldChars(fmt) ==
  SelectSeq(Remove(Remove(fmt, <<"l", "o">>), <<"h", "i">>),
            LAMBDA c : c \notin {" ", "|"})
FieldLetters(fmt) == {fmt[k] : k \in 1 .. Len(fmt)} \cap UpperAZ
FieldPos(fmt, letter) ==
  (CHOOSE k \in 1 .. Len(FieldChars(fmt)) :
     /\ FieldChars(fmt)[k] = letter
     /\ \A j \in 1 .. (k - 1) : FieldChars(fmt)[j] # letter) - 1
FieldWidth(fmt, letter) == Count(FieldChars(fmt), letter)
\* nibble p of the data, the high nibble of a byte first
NibbleAt(data, p) ==
  IF p % 2 = 0 THEN data[p \div 2 + 1] \div 16 ELSE data[p \div 2 + 1] % 16
RECURSIVE NibblesValue(_, _, _)
NibblesValue(data, p, w) ==
  IF w = 0 THEN 0
  ELSE NibblesValue(data, p, w - 1) * 16 + NibbleAt(data, p + w - 1)
\* bit b of the sum of unit_i * 2^(16 * i) is bit b % 16 of unit b \div 16
UnitsBits(data, p, w) ==
  {b \in 0 .. (4 * w - 1) :
     (NibblesValue(data, p + 4 * (b \div 16), 4) \div Pow2(b % 16)) % 2 = 1}
FieldIs(val, data, p, w) ==
  IF w <= 4 THEN val = NibblesValue(data, p, w)
  ELSE IF UnitsBits(data, p, w) \subseteq 0 .. 30
    THEN val = SumBits(UnitsBits(data, p, w))
  ELSE val = UnitsBits(data, p, w)

\* C16: for every format of the instruction-format table and every byte
\* string of the instruction's length, parse_with_format binds each letter of
\* the format, and only those, to the value of the nibbles at the field's
\* position; a field of several 16-bit units (lo .. hi) is the sum of
\* unit_i * 2^(16 * i), the first unit lowest.  Format 51l over
\* 01 18 01 02 03 04 05 06 07 08 gives A = 1 and B = 0x0708050603040102
\* (as the positions of its 1 bits).
C16_FieldsByPosition ==
  f_name = "parse_with_format" =>
    /\ f_res.raised = "none"
    /\ DOMAIN f_res.values = FieldLetters(Format(f_arg[1]))
    /\ \A letter \in FieldLetters(Format(f_arg[1])) :
         FieldIs(f_res.values[letter], FormatData(f_arg),
                 FieldPos(Format(f_arg[1]), letter),
                 FieldWidth(Format(f_arg[1]), letter))
    /\ f_arg = <<"51l", <<1, 24, 1, 2, 3, 4, 5, 6, 7, 8>>>> =>
         /\ f_res.values["A"] = 1
         /\ f_res.values["B"] = {1, 8, 18, 24, 25, 33, 34, 40, 42, 51, 56, 57, 58}
    /\ f_arg = <<"31i", <<1, 20, 86, 120, 18, 52>>>> =>
         f_res.values["B"] = 305419896
C16_Witness ==
  /\ f_name = "parse_with_format"
  /\ f_arg = <<"51l", <<1, 24, 1, 2, 3, 4, 5, 6, 7, 8>>>>
  /\ f_res.raised = "none"
  /\ 56 \in f_res.values["B"]

\* The runs of identical uppercase letters of a syntax, each replaced by the
\* text of its letter's value, every other character kept.
RECURSIVE SameRun(_, _)
SameRun(s, from) ==
  IF from < Len(s) /\ s[from + 1] = s[from] THEN 1 + SameRun(s, from + 1) ELSE 1
TwosComplementText(val, k) ==
  IF val >= 8 * Pow2(4 * (k - 1))
    THEN <<"-">> \o ToHex(Pow2(4 * k) - val)
    ELSE ToHex(val)
RECURSIVE RunsReplaced(_, _, _)
RunsReplaced(args, s, i) ==
  IF i > Len(s) THEN <<>>
  ELSE IF s[i] \in UpperAZ
    THEN (IF i > 1 /\ s[i - 1] \in {"v", "@"}
            THEN ToHex(args[s[i]])
            ELSE TwosComplementText(args[s[i]], SameRun(s, i)))
         \o RunsReplaced(args, s, i + SameRun(s, i))
  ELSE <<s[i]>> \o RunsReplaced(args, s, i + 1)
\* every letter of the syntax is bound to a value of its run's width
RunsBound(args, s) ==
  \A i \in 1 .. Len(s) :
    s[i] \in UpperAZ =>
      /\ s[i] \in DOMAIN args
      /\ (i = 1 \/ s[i - 1] # s[i]) => args[s[i]] < Pow2(4 * SameRun(s, i))

OrderedNames(context) ==
  IF context = "class" THEN
    <<<<0, <<"p", "u", "b", "l", "i", "c">>>>,
      <<1, <<"p", "r", "i", "v", "a", "t", "e">>>>,
      <<2, <<"p", "r", "o", "t", "e", "c", "t", "e", "d">>>>,
      <<3, <<"s", "t", "a", "t", "i", "c">>>>,
      <<4, <<"f", "i", "n", "a", "l">>>>,
      <<5, <<"s", "u", "p", "e", "r">>>>,
      <<6, <<"v", "o", "l", "a", "t", "i", "l", "e">>>>,
      <<7, <<"t", "r", "a", "n", "s", "i", "e", "n", "t">>>>,
      <<8, <<"n", "a", "t", "i", "v", "e">>>>,
      <<9, <<"i", "n", "t", "e", "r", "f", "a", "c", "e">>>>,
      <<10, <<"a", "b", "s", "t", "r", "a", "c", "t">>>>,
      <<11, <<"s", "t", "r", "i", "c", "t", "f", "p">>>>,
      <<12, <<"s", "y", "n", "t", "h", "e", "t", "i", "c">>>>,
      <<13, <<"a", "n", "n", "o", "t", "a", "t", "i", "o", "n">>>>,
      <<14, <<"e", "n", "u", "m">>>>,
      <<16, <<"c", "o", "n", "s", "t", "r", "u", "c", "t", "o", "r">>>>,
      <<17, <<"d", "e", "c", "l", "a", "r", "e", "d", "_", "s", "y", "n", "c", "h", "r", "o", "n", "i", "z", "e", "d">>>>>>
  ELSE IF context = "method" THEN
    <<<<0, <<"p", "u", "b", "l", "i", "c">>>>,
      <<1, <<"p", "r", "i", "v", "a", "t", "e">>>>,
      <<2, <<"p", "r", "o", "t", "e", "c", "t", "e", "d">>>>,
      <<3, <<"s", "t", "a", "t", "i", "c">>>>,
      <<4, <<"f", "i", "n", "a", "l">>>>,
      <<5, <<"s", "y", "n", "c", "h", "r", "o", "n", "i", "z", "e", "d">>>>,
      <<6, <<"b", "r", "i", "d", "g", "e">>>>,
      <<7, <<"v", "a", "r", "a", "r", "g", "s">>>>,
      <<8, <<"n", "a", "t", "i", "v", "e">>>>,
      <<9, <<"i", "n", "t", "e", "r", "f", "a", "c", "e">>>>,
      <<10, <<"a", "b", "s", "t", "r", "a", "c", "t">>>>,
      <<11, <<"s", "t", "r", "i", "c", "t", "f", "p">>>>,
      <<12, <<"s", "y", "n", "t", "h", "e", "t", "i", "c">>>>,
      <<13, <<"a", "n", "n", "o", "t", "a", "t", "i", "o", "n">>>>,
      <<14, <<"e", "n", "u", "m">>>>,
      <<16, <<"c", "o", "n", "s", "t", "r", "u", "c", "t", "o", "r">>>>,
      <<17, <<"d", "e", "c", "l", "a", "r", "e", "d", "_", "s", "y", "n", "c", "h", "r", "o", "n", "i", "z", "e", "d">>>>>>
  ELSE
    <<<<0, <<"p", "u", "b", "l", "i", "c">>>>,
      <<1, <<"p", "r", "i", "v", "a", "t", "e">>>>,
      <<2, <<"p", "r", "o", "t", "e", "c", "t", "e", "d">>>>,
      <<3, <<"s", "t", "a", "t", "i", "c">>>>,
      <<4, <<"f", "i", "n", "a", "l">>>>,
      <<5, <<"s", "y", "n", "c", "h", "r", "o", "n", "i", "z", "e", "d">>>>,
      <<6, <<"v", "o", "l", "a", "t", "i", "l", "e">>>>,
      <<7, <<"t", "r", "a", "n", "s", "i", "e", "n", "t">>>>,
      <<8, <<"n", "a", "t", "i", "v", "e">>>>,
      <<9, <<"i", "n", "t", "e", "r", "f", "a", "c", "e">>>>,
      <<10, <<"a", "b", "s", "t", "r", "a", "c", "t">>>>,
      <<11, <<"s", "t", "r", "i", "c", "t", "f", "p">>>>,
      <<12, <<"s", "y", "n", "t", "h", "e", "t", "i", "c">>>>,
      <<13, <<"a", "n", "n", "o", "t", "a", "t", "i", "o", "n">>>>,
      <<14, <<"e", "n", "u", "m">>>>,
      <<16, <<"c", "o", "n", "s", "t", "r", "u", "c", "t", "o", "r">>>>,
      <<17, <<"d", "e", "c", "l", "a", "r", "e", "d", "_", "s", "y", "n", "c", "h", "r", "o", "n", "i", "z", "e", "d">>>>>>
\* name and one space for every bit of val among the first n names
RECURSIVE NamesOf(_, _, _)
NamesOf(val, context, n) ==
  IF n = 0 THEN <<>>
  ELSE NamesOf(val, context, n - 1)
       \o (IF OrderedNames(context)[n][1] \in val
             THEN OrderedNames(context)[n][2] \o <<" ">> ELSE <<>>)

C19_FailsOnUnknownBits ==
  f_name = "AccessFlag.__str__" =>
    (f_res.raised # "none" <=> \E b \in f_arg[1] : b \notin NamedFlags \cup {15})

\* the result of a reader's call when made alone on the container the parser
\* left
ResultAlone(call) ==
  IF call.fn = "get_instruction_info"
    THEN get_instruction_info(rd_pickle.pickled, call.data, call.addr)
    ELSE disassemble(rd_pickle.pickled, call.data, call.addr)
ResultsAsAlone ==
  \A r \in Readers : rd[r].pc = "done" => rd[r].res = ResultAlone(rd[r])

RECURSIVE UnsignedLE(_)
UnsignedLE(bytes) ==
  IF bytes = <<>> THEN 0 ELSE Head(bytes) + 256 * UnsignedLE(Tail(bytes))
SignedLE(bytes) ==
  IF bytes[Len(bytes)] < 128 THEN UnsignedLE(bytes)
  ELSE -1 - UnsignedLE([k \in 1 .. Len(bytes) |-> 255 - bytes[k]])
\* the branch offset field of an instruction as it lies in the file: A of
\* goto (8 bits, byte 1), goto/16 (16 bits) and goto/32 (32 bits), C of
\* if-test, B of if-testz (16 bits) and of fill-array-data (32 bits)
BranchOffset(data) ==
  IF data[1] = 40 THEN SignedLE(<<data[2]>>)
  ELSE IF data[1] \in {38, 42} THEN SignedLE(SubSeq(data, 3, 6))
  ELSE SignedLE(SubSeq(data, 3, 4))

\* C21: at address a, get_instruction_info reports for every goto variant
\* exactly one UnconditionalBranch to a + 2 * s, s being field A as a two's
\* complement number of its full width; for every if-* and for
\* fill-array-data a TrueBranch to a + 2 * s (s the signed C when the format
\* has one, else the signed B) and a FalseBranch to a + 2 * insn_len.  goto
\* +0x10 has length 2 and target a + 0x20.
C21_BranchTargets ==
  f_name = "get_instruction_info" =>
    /\ f_res.raised = "none"
    /\ f_res.length = 2 * InsnLen(f_arg[1][1])
    /\ Len(f_arg[1]) = f_res.length
    /\ f_arg[1][1] \in 40 .. 42 =>
         f_res.branches =
           <<Branch("UnconditionalBranch",
                    f_arg[2] + 2 * BranchOffset(f_arg[1]))>>
    /\ f_arg[1][1] \in {38} \cup (50 .. 61) =>
         f_res.branches =
           <<Branch("TrueBranch", f_arg[2] + 2 * BranchOffset(f_arg[1])),
             Branch("FalseBranch", f_arg[2] + f_res.length)>>
    /\ f_arg[1] = <<40, 16>> =>
         /\ f_res.length = 2
         /\ f_res.branches[1].target = f_arg[2] + 32
C21_Witness ==
  /\ f_name = "get_instruction_info"
  /\ f_arg = <<<<42, 0, 254, 255, 255, 255>>, 256>>
  /\ f_res.branches = <<Branch("UnconditionalBranch", 252)>>

\* The assigned value types, the widest payload of each sized type, and the
\* encoded values of the inputs that are well formed: the payload is there
\* and no wider than the type, an index is within its pool, an array or an
\* annotation is complete.
AssignedTypes == {0, 2, 3, 4, 6, 16, 17} \cup (21 .. 31)
MaxPayload(type) ==
  CASE type = 0 -> 1
    [] type \in {2, 3} -> 2
    [] type \in {4, 16} \cup (21 .. 27) -> 4
    [] type \in {6, 17} -> 8
WellFormedValue(self, data) ==
  LET type == data[1] % 32
      k == data[1] \div 32 + 1
  IN  IF type \notin AssignedTypes THEN TRUE
      ELSE IF type = 28
        THEN data \in {<<28, 0>>, <<28, 2, 0, 5, 30>>, <<28, 1, 28, 1, 31>>,
                       <<28, 1, 23, 1>>}
      ELSE IF type = 29
        THEN k = 1 /\ Len(data) = 3 /\ data[2] < Len(self.type_ids)
             /\ data[3] = 0
      ELSE IF type = 30 THEN k = 1 /\ Len(data) = 1
      ELSE IF type = 31 THEN k <= 2 /\ Len(data) = 1
      ELSE /\ k <= MaxPayload(type)
           /\ Len(data) = k + 1
           /\ type \in 21 .. 27 =>
                /\ data[Len(data)] < 128
                /\ UnsignedLE(Tail(data)) < Len(self.strings)

\* C22: decoding an encoded_value fails with an error if and only if the low
\* five bits of its header byte are not an assigned value type; a value of
\* each of the 18 assigned types is decoded to a value of that type.
C22_FailsOnlyOnUnassigned ==
  (f_name = "_parse_encoded_value" /\ WellFormedValue(f_arg[1], f_arg[2])) =>
    /\ f_res.raised # "none" <=> (f_arg[2][1] % 32) \notin AssignedTypes
    /\ f_res.raised = "none" => f_res.value.type_ = f_arg[2][1] % 32

\* the k-byte little-endian two's-complement integer, as a 64-bit value is
\* held
SignedLEBits(bytes) ==
  LET ones == {b \in 0 .. (8 * Len(bytes) - 1) :
                 (bytes[b \div 8 + 1] \div Pow2(b % 8)) % 2 = 1}
  IN  IF bytes[Len(bytes)] >= 128
        THEN [neg |-> TRUE, bits |-> (0 .. (8 * Len(bytes) - 1)) \ ones]
        ELSE [neg |-> FALSE, bits |-> ones]

\* C24: for an encoded_value of type VALUE_SHORT, VALUE_INT or VALUE_LONG
\* with k = value_arg + 1 payload bytes, the decoded value is the k-byte
\* little-endian integer sign-extended from the top bit of its last byte,
\* and value_arg + 2 bytes are consumed.
C24_SignExtended ==
  (/\ f_name = "_parse_encoded_value"
   /\ f_arg[2][1] % 32 \in {2, 4, 6}
   /\ WellFormedValue(f_arg[1], f_arg[2])) =>
    /\ f_res.raised = "none"
    /\ f_res.len = f_arg[2][1] \div 32 + 2
    /\ f_res.value.value =
         IF f_arg[2][1] % 32 = 6 THEN SignedLEBits(Tail(f_arg[2]))
         ELSE SignedLE(Tail(f_arg[2]))

\* where the items of a section lie: the first at the start, every other at
\* the end of the one before, rounded up to a multiple of 4
RoundUp4(n) == ((n + 3) \div 4) * 4
RECURSIVE ItemStart(_, _)
ItemStart(shapes, k) ==
  IF k = 1 THEN 0
  ELSE RoundUp4(ItemStart(shapes, k - 1) + Len(CodeItemBytes(shapes[k - 1])))

MethodPools(offs) ==
  [CodePools EXCEPT
     !.method_ids = [m \in DOMAIN offs |->
                       [class_ |-> <<"L", "a", ";">>, name |-> <<"m">>,
                        _insns_off |-> offs[m],
                        proto |-> [parameters |-> << <<"I">> >>,
                                   return_type |-> <<"V">>]]]]
InvokeStatic(m) == <<113, 0, m - 1, 0, 0, 0>>
\* every encoded_method that named m had code_off 0: the first one had, and
\* no later one differed from it
OnlyWithoutCode(m) == em_first[m] = 16 /\ m \notin em_warned

\* C25: a method_id has an instruction-stream offset only if an
\* encoded_method bound it to a code item (non-zero code_off), and the
\* offset is then that item's instruction-stream offset; a method whose
\* encoded_methods all have code_off 0 has no offset, is rendered as plain
\* text and yields no CallDestination.
C25_OffsetOnlyFromCode ==
  em_raised = "none" =>
    \A m \in DOMAIN method_ids :
      /\ method_ids[m] # None =>
           /\ em_first[m] # None
           /\ method_ids[m] - CODE_ITEM_HEADER_SIZE \in CodeItemOffs
      /\ OnlyWithoutCode(m) =>
           /\ method_ids[m] = None
           /\ get_instruction_info(Df(MethodPools(method_ids), <<>>),
                                   InvokeStatic(m), 0).branches = <<>>
           /\ \A k \in DOMAIN disassemble(Df(MethodPools(method_ids), <<>>),
                                          InvokeStatic(m), 0).tokens :
                disassemble(Df(MethodPools(method_ids), <<>>),
                            InvokeStatic(m), 0).tokens[k].type
                  # "PossibleAddressToken"

\* the sections that are accepted and skipped
SkippedSections ==
  { TYPE_ANNOTATION_ITEM, TYPE_ANNOTATIONS_DIRECTORY_ITEM,
    TYPE_ANNOTATION_SET_ITEM, TYPE_ANNOTATION_SET_REF_LIST,
    TYPE_DEBUG_INFO_ITEM }

\* C26: whichever of annotation_item, annotations_directory_item,
\* annotation_set_item, annotation_set_ref_list and debug_info_item are
\* present in the map list, construction consumes every one of them and
\* reports none of them as an unknown section type.
C26_SkippedSectionsConsumed ==
  ctor_pc = "done" =>
    \A t \in SkippedSections :
      /\ t \notin map_list
      /\ Error("unknown type", t) \notin log

\* the offset the extractor went to from address a: the least address it
\* visited after a, or the end of the stream
StreamEnd == insns_off + Len(insns)
NextVisited(a) ==
  IF \E v \in visited : v > a
    THEN CHOOSE v \in visited : v > a /\ \A w \in visited : w > a => v <= w
    ELSE StreamEnd
IsPayloadHead(head) == Len(head) = 2 /\ head[1] = 0 /\ head[2] \in 1 .. 3

\* C27: the walk of write_method over the stream of a parsed code item,
\* advancing by the byte count disassemble returns and by 2 after a
\* failure, stands only at offsets the extractor visited and goes from each
\* to the one the extractor went to; so at every payload header of type
\* 1..3 it reaches, the pseudo-instruction map has an entry.
C27_WalkFollowsExtractor ==
  /\ (dis_state = "walking" /\ dis_off < Len(insns)) =>
       insns_off + dis_off \in visited
  /\ dis_last.called =>
       IF NextVisited(dis_last.addr) = StreamEnd
         THEN insns_off + dis_off >= StreamEnd
         ELSE insns_off + dis_off = NextVisited(dis_last.addr)
  /\ (dis_last.called /\ IsPayloadHead(dis_last.head)) =>
       dis_last.addr \in DOMAIN pseudoinstructions

\* C28: on every even-length code stream the walk of the extractor
\* terminates: every step (instruction, payload, unknown payload header)
\* increases the offset by at least 2 bytes, the extractor only stands at
\* offsets before the end of the stream and stops once the offset has
\* reached or passed it.
C28_ExtractorTerminates ==
  /\ [][(code_pc = "extract" /\ code_pc' = "extract")
          => code_offset' >= code_offset + 2]_vars
  /\ [](\A v \in visited : v < StreamEnd)
  /\ [](code_pc = "loaded" => code_offset >= Len(insns))
  /\ [](Len(file) % 2 = 0)
  /\ <>(code_pc \in {"loaded", "raised"})
\* the walk has ended past the end of a stream that holds a payload
C28_Witness ==
  /\ code_pc = "loaded"
  /\ code_offset > Len(insns)
  /\ Cardinality(visited) >= 2
  /\ DOMAIN pseudoinstructions # {}

ParserFinished == parser.pc \in {"done", "raised"}
LoaderPolling == loader.pc \in {"open", "sleep", "load"}

\* C29: once DexParser.run has finished, whether DexFile construction
\* returned or raised, a call of load_dex eventually ends; it does not poll
\* for the pickle file forever.
C29_LoadDexReturns ==
  (ParserFinished /\ LoaderPolling) ~> (loader.pc \in {"returned", "raised"})

\* C30: in every interleaving of JsonWriter and load_dex, what load_dex
\* unpickles is a file JsonWriter has completely written for the Dex being
\* opened: never a partly written pickle, never one left by an earlier
\* parse.
C30_LoadsOnlyCurrentPickle ==
  /\ \A f \in loaded : f.dex = "current" /\ f.written = PickleChunks
  /\ loader.df \in {"None", "current"}

\* C10: every method handle is resolved against the field pool when its
\* kind is 0x00..0x03 and against the method pool when its kind is
\* 0x04..0x08, at the index given by the item's field_or_method_id.
C10_HandleResolvedByKind ==
  \A i \in DOMAIN method_handles :
    LET item == mh_input[i]
        h == method_handles[i]
    IN  h.field_or_method_id =
          IF item.type <= METHOD_HANDLE_TYPE_INSTANCE_GET
            THEN [pool |-> "field_ids", index |-> item.id]
            ELSE [pool |-> "method_ids", index |-> item.id]

====
